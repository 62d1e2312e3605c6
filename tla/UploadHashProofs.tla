-------------------------- MODULE UploadHashProofs --------------------------
(***************************************************************************)
(* Proofs about Upload: a client that hashes with md5 is never told that a *)
(* hash is wrong while its upload has its directory to itself.  The        *)
(* chunks of a file arrive in turn and nobody else writes to the file, so  *)
(* what the server hashes is what the client hashed.                       *)
(***************************************************************************)
EXTENDS UploadProofs

IsChunk(m) == m.kind = "file" /\ m.hash = None
IsHash(m) == m.kind = "file" /\ m.hash # None

(* A sender at p is at a file, not behind the last of an argument. *)
InFile(u, p) == p.arg \in 1..NArgs(u) /\ p.file <= Len(Args[u][p.arg].files)

(* Message k of the stream, or the sender if there are no more, is at a    *)
(* part of the file with name x.                                           *)
FileAt(u, k, x) ==
    IF k <= Len(net[u])
    THEN net[u][k].kind = "file" /\ net[u][k].name = x
    ELSE InFile(u, at[u]) /\ NameAt(u, at[u]) = x

(* The messages of u have no chunk numbers: turn is a numbering of them,   *)
(* and of what the sender sends next.                                      *)
Turns(u) == [1..(Len(net[u]) + 1) -> Nat \ {0}]

(* Message m has number i, and what comes after it j. *)
Numbered(u, m, i, j) ==
    /\ IsChunk(m) => /\ i <= Len(Local[u][m.name]) /\ m.contents = Local[u][m.name][i]
                     /\ j = i + 1
    /\ IsHash(m) => i = Len(Local[u][m.name]) + 1 /\ j = 1
    /\ m.kind # "file" => i = 1 /\ j = 1

(* The messages on their way are the parts of files, in turn. *)
InTurn(u, turn) ==
    /\ turn[Len(net[u]) + 1] = at[u].chunk
    /\ \A k \in 1..Len(net[u]) :
          /\ Numbered(u, net[u][k], turn[k], turn[k + 1])
          /\ IsChunk(net[u][k]) => FileAt(u, k + 1, net[u][k].name)

(* The file f the handler has open is the one, named x, whose parts come   *)
(* next, and has the chunks before them.                                   *)
OpenAs(u, f, x, n) ==
    /\ FileAt(u, 1, x) /\ f = Target(u, x)
    /\ n # 1 \/ net[u] # <<>>
    /\ handled[u][f].pos = n - 1
    /\ Alone(u) => data[handled[u][f].ino] = SubSeq(Local[u][x], 1, n - 1)

WrittenInTurn(u, n) ==
    /\ n # 1 => Open(u) # {}
    /\ \A f \in Open(u) : \E x \in ReadableFiles(u) : OpenAs(u, f, x, n)

(* In the middle of a file the sender can read it. *)
Midway(u) ==
    at[u].chunk # 1 => InFile(u, at[u]) /\ NameAt(u, at[u]) \in ReadableFiles(u)

TurnsOK(u) ==
    /\ Midway(u)
    /\ ~ Over(u) => \E turn \in Turns(u) : InTurn(u, turn) /\ WrittenInTurn(u, turn[1])
    /\ HashMethod[u] = "md5" /\ key[u] # None /\ Alone(u) => status[u] # "hash"

HashInv == UploadInv /\ \A u \in Uploads : TurnsOK(u)

-----------------------------------------------------------------------------
(* What a step of one handler means for the others *)

(* The upload of o is as it was: if it has its directory to itself it had  *)
(* it before, and the files it has open were not written to.               *)
Untouched(o) ==
    /\ pc'[o] = pc[o] /\ key'[o] = key[o] /\ status'[o] = status[o]
    /\ handled'[o] = handled[o]
    /\ key[o] # None /\ Alone(o)' =>
          /\ Alone(o)
          /\ \A f \in Open(o) : data'[handled[o][f].ino] = data[handled[o][f].ino]

(* Who has a file open has a schema. *)
LEMMA OpenHasKey ==
    ASSUME FilesInv, NEW o \in Uploads, Open(o) # {}
    PROVE  pc[o] = "recv" /\ key[o] \in Keys /\ key[o] # None
BY UploadAssumption DEF FilesInv, HandlerOK, Open, Active, Working

(* ... and its messages lead to the paths its client means. *)
LEMMA PathMeant ==
    ASSUME FilesInv, NEW u \in Uploads, ClientOK(u), pc[u] = "recv", NEW m
    PROVE  FileName(u, m) = Target(u, m.name)
<1>1. key[u] \in Keys /\ key[u] # None
    BY UploadAssumption DEF FilesInv, HandlerOK, Active, Working
<1>2. key[u] = KeyOf[u]
    BY <1>1 DEF ClientOK, OutcomeOK
<1> QED BY <1>2 DEF FileName, Target, DirU

(* What is open, and where, does not change with the time. *)
LEMMA StillWritten ==
    ASSUME NEW u \in Uploads, NEW n, WrittenInTurn(u, n), handled'[u] = handled[u],
           \A x : FileAt(u, 1, x) /\ (n # 1 \/ net[u] # <<>>) => FileAt(u, 1, x)',
           net[u] # <<>> => net'[u] # <<>>,
           Open(u) # {} /\ Alone(u)' =>
               /\ Alone(u)
               /\ \A f \in Open(u) : data'[handled[u][f].ino] = data[handled[u][f].ino]
    PROVE  WrittenInTurn(u, n)'
<1>1. Open(u)' = Open(u) /\ ReadableFiles(u)' = ReadableFiles(u)
    BY DEF Open, ReadableFiles
<1>2. ASSUME NEW f \in Open(u), NEW x \in ReadableFiles(u), OpenAs(u, f, x, n)
      PROVE  OpenAs(u, f, x, n)'
    <2>1. FileAt(u, 1, x)'
        BY <1>2 DEF OpenAs
    <2>2. f = Target(u, x)' /\ (n # 1 \/ net'[u] # <<>>) /\ handled'[u][f].pos = n - 1
        BY <1>2 DEF OpenAs, Target
    <2>3. Alone(u)' => data'[handled'[u][f].ino] = SubSeq(Local[u][x], 1, n - 1)
        BY <1>2 DEF OpenAs
    <2> QED BY <2>1, <2>2, <2>3 DEF OpenAs
<1>3. \A f \in Open(u)' : \E x \in ReadableFiles(u)' : OpenAs(u, f, x, n)'
    BY <1>1, <1>2 DEF WrittenInTurn
<1> QED BY <1>1, <1>3 DEF WrittenInTurn

(* An upload that is as it was keeps its numbering. *)
LEMMA TurnsSame ==
    ASSUME FilesInv, NEW o \in Uploads, TurnsOK(o), Untouched(o), ClientWaits(o),
           net'[o] = net[o]
    PROVE  TurnsOK(o)'
<1>1. Midway(o)'
    BY DEF TurnsOK, Midway, ClientWaits, NameAt, InFile, ReadableFiles
<1>2. HashMethod[o] = "md5" /\ key'[o] # None /\ Alone(o)' => status'[o] # "hash"
    BY DEF TurnsOK, Untouched
<1>3. ASSUME ~ Over(o)'
      PROVE  \E turn \in Turns(o)' : InTurn(o, turn)' /\ WrittenInTurn(o, turn[1])'
    <2>1. ~ Over(o)
        BY <1>3 DEF Over, Untouched, ClientWaits
    <2>2. PICK turn \in Turns(o) : InTurn(o, turn) /\ WrittenInTurn(o, turn[1])
        BY <2>1 DEF TurnsOK
    <2>3. turn \in Turns(o)'
        BY <2>2 DEF Turns
    <2>4. \A k, f : FileAt(o, k, f) => FileAt(o, k, f)'
        BY DEF FileAt, ClientWaits, NameAt, InFile
    <2>5. InTurn(o, turn)'
        BY <2>2, <2>4 DEF InTurn, ClientWaits
    <2>6. WrittenInTurn(o, turn[1])'
        <3>1. Open(o) # {} => key[o] # None
            BY OpenHasKey
        <3> QED BY <2>2, <2>4, <3>1, StillWritten DEF Untouched
    <2> QED BY <2>3, <2>5, <2>6
<1> QED BY <1>1, <1>2, <1>3 DEF TurnsOK

(* Nobody takes a directory over but in the first step of an upload. *)
LEMMA OthersUntouched ==
    ASSUME FilesInv, NEW u \in Uploads, OthersSame(u), OnlyOwnFiles(u),
           (user' = user /\ shared \subseteq shared') \/ (\E k \in Keys : TakeOver(u, k)),
           NEW o \in Uploads, o # u
    PROVE  Untouched(o)
<1>1. /\ pc'[o] = pc[o] /\ key'[o] = key[o] /\ status'[o] = status[o]
      /\ handled'[o] = handled[o] /\ DirU(o)' = DirU(o)
    BY DEF OthersSame, DirU
<1>2. ASSUME key[o] # None, Alone(o)'
      PROVE  Alone(o)
    <2>1. DirU(o) \in Dirs
        BY <1>2, UploadAssumption DEF DirU, FilesInv, Shape, ShapeOf
    <2>2. user'[DirU(o)] = o /\ DirU(o) \notin shared'
        BY <1>1, <1>2 DEF Alone
    <2>3. CASE user' = user /\ shared \subseteq shared'
        BY <2>2, <2>3 DEF Alone
    <2>4. ASSUME NEW k \in Keys, TakeOver(u, k)
          PROVE  Alone(o)
        <3>1. user \in [Dirs -> Uploads \union {None}] /\ user' = [user EXCEPT ![DirOf[k]] = u]
            BY <2>4 DEF FilesInv, Shape, ShapeOf, TakeOver
        <3>2. DirU(o) # DirOf[k]
            BY <2>1, <2>2, <3>1
        <3>3. user[DirU(o)] = o
            BY <2>1, <2>2, <3>1, <3>2
        <3>4. DirU(o) \notin shared
            BY <2>2, <2>4, <3>2 DEF TakeOver
        <3> QED BY <3>3, <3>4 DEF Alone
    <2> QED BY <2>3, <2>4
<1>3. ASSUME Alone(o), Alone(o)', NEW f \in Open(o)
      PROVE  data'[handled[o][f].ino] = data[handled[o][f].ino]
    <2>1. pc[o] = "recv" /\ f \in Files /\ handled[o][f] # None
        BY OpenHasKey DEF Open
    <2>2. OwnFiles(o) /\ DirU(o) \notin shared'
        BY <1>1, <1>3, <2>1 DEF FilesInv, Undisturbed, Active, Working, Alone
    <2>3. ~ WorksIn(u, DirU(o)) /\ In[f] = DirU(o) /\ link[f] = handled[o][f].ino
        BY <2>1, <2>2 DEF OwnFiles
    <2>4. handled[o][f].ino \in Inodes /\ handled[o][f].ino # None
        BY <2>1, UploadAssumption DEF FilesInv, Shape, ShapeOf
    <2> QED BY <2>1, <2>2, <2>3, <2>4 DEF OnlyOwnFiles
<1> QED BY <1>1, <1>2, <1>3 DEF Untouched

(* A handler that returns or goes on by itself keeps to itself. *)
KeepsToItself(u) ==
    /\ OthersSame(u) /\ OnlyOwnFiles(u)
    /\ (user' = user /\ shared \subseteq shared') \/ (\E k \in Keys : TakeOver(u, k))

(* Returning keeps to itself ... *)
LEMMA ReturnKeeps ==
    ASSUME FilesInv, NEW u \in Uploads, NEW s \in Statuses, Return(u, s), FileStep(u)
    PROVE  KeepsToItself(u)
<1>1. OthersSame(u) /\ UNCHANGED <<user, shared>>
    BY DEF Return, End, OthersSame
<1> QED BY <1>1, OwnFilesOnly DEF KeepsToItself

(* ... and so does going on. *)
LEMMA GotoKeeps ==
    ASSUME FilesInv, NEW u \in Uploads, NEW l, Goto(u, l), FileStep(u),
           UNCHANGED <<key, handled, scFiles, scDirs, status, verified, user, shared>>,
           \/ rev' = rev \/ \E r : rev' = [rev EXCEPT ![u] = r]
    PROVE  KeepsToItself(u)
<1>1. OthersSame(u)
    BY DEF Goto, OthersSame, FilesInv, Shape, ShapeOf
<1> QED BY <1>1, OwnFilesOnly DEF KeepsToItself

(* Every step of a handler does. *)
LEMMA WritesKeep ==
    ASSUME FilesInv, NEW u \in Uploads, NEW m, WellFormed(m),
           WriteChunk(u, m) \/ WriteFails(u, m) \/ VerifyHash(u, m) \/ UnspecifiedHash(u, m)
    PROVE  KeepsToItself(u)
<1> DEFINE n == FileName(u, m)
           h == handled[u][n]
<1>1. /\ n \in Files /\ pc[u] \in Working /\ h # None
      /\ h \in [ino : Inodes, pos : Nat] /\ Updated(u, m) \in Texts
    BY OpenFile, UpdatedIsText DEF WriteChunk, WriteFails, VerifyHash, UnspecifiedHash, FilesInv
<1>2. <<>> \in Texts
    BY DEF Texts
<1>3. \/ data' = data
      \/ data' = [data EXCEPT ![h.ino] = Updated(u, m)]
      \/ data' = [data EXCEPT ![h.ino] = <<>>]
    BY DEF WriteChunk, WriteFails, VerifyHash, UnspecifiedHash, Write
<1>4. link' = link \/ RemoveAll(DirU(u))
    BY DEF WriteChunk, WriteFails, VerifyHash, UnspecifiedHash, CleanAndReturn
<1>5. CASE \E s \in Statuses : CleanAndReturn(u, s)
    <2>1. PICK s \in Statuses : Return(u, s)
        BY <1>5 DEF CleanAndReturn
    <2> HIDE DEF n
    <2>2. FileStep(u)
        BY <1>1, <1>2, <1>3, <1>4, WritesOpen DEF FileStep
    <2> QED BY <2>1, <2>2, ReturnKeeps
<1>6. CASE ~ (\E s \in Statuses : CleanAndReturn(u, s))
    <2>1. /\ UNCHANGED <<pc, key, rev, status, user, shared>>
          /\ \A o \in Uploads \ {u} : /\ handled'[o] = handled[o]
                                      /\ scFiles'[o] = scFiles[o] /\ scDirs'[o] = scDirs[o]
                                      /\ verified'[o] = verified[o]
        <3>1. CASE WriteChunk(u, m)
            <4>1. /\ handled' = [handled EXCEPT ![u][n].pos = @ + (IF m.contents = None THEN 0 ELSE 1)]
                  /\ UNCHANGED <<pc, key, scFiles, scDirs, rev, status, verified, user, shared>>
                BY <3>1 DEF WriteChunk
            <4> HIDE DEF n
            <4> QED BY <4>1 DEF FilesInv, Shape, ShapeOf
        <3>2. CASE VerifyHash(u, m)
            <4>1. /\ handled' = [handled EXCEPT ![u][n] = None]
                  /\ verified' = [verified EXCEPT ![u][n] = m.hash.sum[2]]
                  /\ UNCHANGED <<pc, key, rev, status, user, shared>>
                  /\ \/ scFiles' = [scFiles EXCEPT ![u] = @ \union {n}] /\ scDirs' = scDirs
                     \/ scDirs' = [scDirs EXCEPT ![u] = @ \union {n}] /\ scFiles' = scFiles
                BY <1>6, <3>2 DEF VerifyHash, Statuses
            <4> HIDE DEF n
            <4>2. \A o \in Uploads \ {u} : handled'[o] = handled[o] /\ verified'[o] = verified[o]
                BY <4>1 DEF FilesInv, Shape, ShapeOf
            <4>3. \A o \in Uploads \ {u} : scFiles'[o] = scFiles[o] /\ scDirs'[o] = scDirs[o]
                BY <4>1 DEF FilesInv, Shape, ShapeOf
            <4> QED BY <4>1, <4>2, <4>3
        <3> QED BY <1>6, <3>1, <3>2 DEF WriteFails, UnspecifiedHash, Statuses
    <2>2. OthersSame(u)
        BY <2>1 DEF OthersSame
    <2> HIDE DEF n
    <2>3. FileStep(u)
        BY <1>1, <1>2, <1>3, <1>4, WritesOpen DEF FileStep
    <2> QED BY <2>1, <2>2, <2>3, OwnFilesOnly DEF KeepsToItself
<1> QED BY <1>5, <1>6

(* Every message is handled so ... *)
LEMMA MessageKeeps ==
    ASSUME FilesInv, NEW u \in Uploads, NEW m, WellFormed(m),
           CreateFileWithDir(u, m) \/ Consume(u, m)
    PROVE  KeepsToItself(u)
<1>1. CASE \E s \in Statuses : Return(u, s) /\ UNCHANGED files
    <2>1. PICK s \in Statuses : Return(u, s) /\ UNCHANGED files
        BY <1>1
    <2> QED BY <2>1, LeavesFiles, ReturnKeeps
<1>2. CASE CreateFileWithDir(u, m)
    <2>1. CASE ~ (Return(u, "error") /\ UNCHANGED files)
        <3>1. OthersSame(u) /\ OnlyOwnFiles(u)
            BY <1>2, <2>1, CreatedFile
        <3>2. user' = user /\ shared \subseteq shared'
            BY <1>2, <2>1 DEF CreateFileWithDir
        <3> QED BY <3>1, <3>2 DEF KeepsToItself
    <2> QED BY <1>1, <2>1 DEF Statuses
<1>3. CASE CreateSchema(u, m)
    <2>1. CASE /\ m.key \in ValidKeys /\ key' = [key EXCEPT ![u] = m.key]
               /\ TakeOver(u, m.key) /\ Goto(u, "clean")
               /\ UNCHANGED <<handled, scFiles, scDirs, rev, status, verified, files>>
        <3>1. OthersSame(u)
            BY <2>1 DEF Goto, OthersSame, FilesInv, Shape, ShapeOf
        <3>2. m.key \in Keys /\ OnlyOwnFiles(u)
            BY <2>1, UploadAssumption, LeavesFiles, OwnFilesOnly
        <3> QED BY <2>1, <3>1, <3>2 DEF KeepsToItself
    <2> QED BY <1>1, <1>3, <2>1 DEF CreateSchema, Statuses
<1>4. CASE NotCreateSchema(u, m) \/ NamelessFile(u, m)
    BY <1>1, <1>4 DEF NotCreateSchema, NamelessFile, Statuses
<1>5. CASE Finalize(u, m) \/ UnexpectedMessage(u, m)
    <2>1. data' = data /\ pc[u] \in Working
        BY <1>5 DEF Finalize, UnexpectedMessage, Working
    <2>2. CASE \E s \in Statuses : CleanAndReturn(u, s)
        <3>1. PICK s \in Statuses : (RemoveAll(DirU(u)) \/ link' = link) /\ Return(u, s)
            BY <2>2 DEF CleanAndReturn
        <3>2. FileStep(u)
            BY <2>1, <3>1 DEF FileStep
        <3> QED BY <3>1, <3>2, ReturnKeeps
    <2>3. CASE /\ Goto(u, "parse") /\ link' = link /\ rev' = rev
               /\ UNCHANGED <<key, handled, scFiles, scDirs, status, verified, user, shared>>
        <3>1. FileStep(u)
            BY <2>1, <2>3 DEF FileStep
        <3> QED BY <2>3, <3>1, GotoKeeps
    <2> QED BY <1>5, <2>2, <2>3 DEF Finalize, UnexpectedMessage, Statuses
<1> QED BY <1>2, <1>3, <1>4, <1>5, WritesKeep DEF Consume

(* ... and every other step. *)
LEMMA ProceedKeeps ==
    ASSUME FilesInv, NEW u \in Uploads, RecvFails(u) \/ Proceed(u)
    PROVE  KeepsToItself(u)
<1>1. CASE \E s \in Statuses : Return(u, s)
    <2>1. PICK s \in Statuses : Return(u, s)
        BY <1>1
    <2>2. link' = link \/ (pc[u] \in Working /\ RemoveAll(DirU(u)))
        BY DEF RecvFails, Proceed, CleanDirectory, NewSchema, AddSchema, CleanAndReturn,
               Working, files
    <2>3. data' = data
        BY DEF RecvFails, Proceed, CleanDirectory, NewSchema, AddSchema, files
    <2>4. FileStep(u)
        BY <2>2, <2>3 DEF FileStep
    <2> QED BY <2>1, <2>4, ReturnKeeps
<1>2. CASE CleanDirectory(u)
    <2>1. CASE /\ RemoveAll(DirU(u)) /\ Goto(u, "recv") /\ rev' = rev
               /\ UNCHANGED <<key, handled, scFiles, scDirs, status, verified, user, shared>>
        <3>1. FileStep(u)
            BY <1>2, <2>1 DEF FileStep, CleanDirectory, Working
        <3> QED BY <2>1, <3>1, GotoKeeps
    <2> QED BY <1>1, <1>2, <2>1 DEF CleanDirectory, Statuses
<1>3. CASE NewSchema(u)
    <2>1. CASE ~ CleanAndReturn(u, "error")
        <3>1. /\ Goto(u, "add") /\ link' = link /\ data' = data
              /\ UNCHANGED <<key, handled, scFiles, scDirs, status, verified, user, shared>>
              /\ \E r : rev' = [rev EXCEPT ![u] = r]
            BY <1>3, <2>1 DEF NewSchema
        <3>2. FileStep(u)
            BY <3>1 DEF FileStep
        <3> QED BY <3>1, <3>2, GotoKeeps
    <2> QED BY <1>1, <2>1 DEF CleanAndReturn, Statuses
<1>4. CASE AddSchema(u)
    <2>1. CASE ~ Return(u, "error")
        <3>1. /\ Goto(u, "done") /\ status' = [status EXCEPT ![u] = "ok"] /\ UNCHANGED files
              /\ UNCHANGED <<key, handled, scFiles, scDirs, rev, verified, user, shared>>
            BY <1>4, <2>1 DEF AddSchema
        <3>2. OthersSame(u)
            BY <3>1 DEF Goto, OthersSame, FilesInv, Shape, ShapeOf
        <3> QED BY <3>1, <3>2, LeavesFiles, OwnFilesOnly DEF KeepsToItself
    <2> QED BY <1>1, <2>1 DEF Statuses
<1> QED BY <1>1, <1>2, <1>3, <1>4 DEF RecvFails, Proceed, Statuses

-----------------------------------------------------------------------------
(* Files and their parts *)

(* A chunk written in turn makes the file one chunk longer. *)
LEMMA WriteInTurn ==
    ASSUME NEW s \in Seq(Chunks), NEW n \in 1..Len(s)
    PROVE  WriteAt(SubSeq(s, 1, n - 1), n - 1, s[n]) = SubSeq(s, 1, n)
<1> DEFINE t == SubSeq(s, 1, n - 1)
           r == SubSeq(s, 1, n)
<1>1. Len(s) \in Nat /\ n \in Nat /\ \A i \in 1..Len(s) : s[i] \in Chunks
    OBVIOUS
<1>2. /\ t \in Seq(Chunks) /\ Len(t) = n - 1 /\ \A i \in 1..(n - 1) : t[i] = s[i]
    <2>1. \A i \in 1..(n - 1) : s[i] \in Chunks
        BY <1>1
    <2>2. /\ t \in Seq(Chunks) /\ Len(t) = (IF 1 <= n - 1 THEN (n - 1) - 1 + 1 ELSE 0)
          /\ \A i \in 1..((n - 1) - 1 + 1) : t[i] = s[1 + i - 1]
        BY <1>1, <2>1, SubSeqProperties
    <2> QED BY <1>1, <2>2
<1>3. /\ r \in Seq(Chunks) /\ Len(r) = n /\ \A i \in 1..n : r[i] = s[i]
    <2>1. \A i \in 1..n : s[i] \in Chunks
        BY <1>1
    <2>2. /\ r \in Seq(Chunks) /\ Len(r) = (IF 1 <= n THEN n - 1 + 1 ELSE 0)
          /\ \A i \in 1..(n - 1 + 1) : r[i] = s[1 + i - 1]
        BY <1>1, <2>1, SubSeqProperties
    <2> QED BY <1>1, <2>2
<1> HIDE DEF t, r
<1>4. WriteAt(t, n - 1, s[n]) = [i \in 1..n |-> s[i]]
    <2>1. (IF n - 1 < Len(t) THEN Len(t) ELSE (n - 1) + 1) = n
        BY <1>1, <1>2
    <2>2. \A i \in 1..n : (IF i = (n - 1) + 1 THEN s[n] ELSE IF i <= Len(t) THEN t[i] ELSE Hole) = s[i]
        BY <1>1, <1>2
    <2> QED BY <2>1, <2>2 DEF WriteAt
<1>5. r = [i \in 1..n |-> s[i]]
    <2>1. r \in [1..n -> Chunks]
        BY <1>3
    <2> QED BY <1>3, <2>1
<1> QED BY <1>4, <1>5 DEF t, r

(* Before the first chunk there is nothing, after the last everything. *)
LEMMA FileEnds ==
    ASSUME NEW s \in Seq(Chunks)
    PROVE  SubSeq(s, 1, 0) = <<>> /\ SubSeq(s, 1, Len(s)) = s
BY SubSeqEmpty, SubSeqFull

(* What the parts of a file say. *)
LEMMA PartFacts ==
    ASSUME NEW u \in Uploads, NEW m \in ClientMessages(u), m.kind = "file"
    PROVE  /\ m.name \in ReadableFiles(u) /\ Local[u][m.name] \in Seq(Chunks)
           /\ m.hash = None => m.contents # None
           /\ m.hash # None => /\ m.contents = None /\ m.hash.method = "md5"
                               /\ m.hash.sum = Digest(HashMethod[u], Local[u][m.name])
<1>1. \A f \in ReadableFiles(u) : Local[u][f] \in Seq(Chunks)
    BY ReadableHasLength DEF ReadableFiles
<1>2. \/ \E f \in ReadableFiles(u), ft \in FileTypes : m = HashMessage(u, f, ft)
      \/ \E f \in ReadableFiles(u), ft \in FileTypes :
            \E j \in 1..Len(Local[u][f]) : m = ChunkMessage(u, f, ft, j)
    BY DEF ClientMessages, ChunkMessages
<1>3. ASSUME NEW f \in ReadableFiles(u), NEW ft \in FileTypes, m = HashMessage(u, f, ft)
      PROVE  /\ m.name = f /\ m.hash # None /\ m.contents = None /\ m.hash.method = "md5"
             /\ m.hash.sum = Digest(HashMethod[u], Local[u][f])
    <2>1. /\ m.name = f /\ m.contents = None
          /\ m.hash = [method |-> "md5", sum |-> <<HashMethod[u], Local[u][f]>>]
        BY <1>3 DEF HashMessage, CalcHash, Digest
    <2>2. m.hash # None
        BY <1>1, <2>1, ClientAssumption
    <2> QED BY <2>1, <2>2 DEF Digest
<1>4. ASSUME NEW f \in ReadableFiles(u), NEW ft \in FileTypes, NEW j \in 1..Len(Local[u][f]),
             m = ChunkMessage(u, f, ft, j)
      PROVE  m.name = f /\ m.hash = None /\ m.contents # None
    <2>1. m.name = f /\ m.hash = None /\ m.contents = Local[u][f][j]
        BY <1>4 DEF ChunkMessage
    <2>2. Local[u][f][j] \in Chunks
        BY <1>1
    <2> QED BY <2>1, <2>2, UploadAssumption
<1> QED BY <1>1, <1>2, <1>3, <1>4

-----------------------------------------------------------------------------
(* The steps of the handler *)

(* A file is open only if its next part is the one that comes, and then it *)
(* is the only one.                                                        *)
LEMMA OnlyOpen ==
    ASSUME NEW u \in Uploads, NEW n, WrittenInTurn(u, n), NEW f \in Open(u), NEW g \in Open(u)
    PROVE  f = g
<1>1. PICK x : FileAt(u, 1, x) /\ f = Target(u, x)
    BY DEF WrittenInTurn, OpenAs
<1>2. PICK y : FileAt(u, 1, y) /\ g = Target(u, y)
    BY DEF WrittenInTurn, OpenAs
<1>3. x = y
    BY <1>1, <1>2 DEF FileAt
<1> QED BY <1>1, <1>2, <1>3

(* The open file a message of the client belongs to is open under its name. *)
LEMMA OpenUnderName ==
    ASSUME NEW u \in Uploads, NEW n, WrittenInTurn(u, n), Open(u) # {}, 1 <= Len(net[u])
    PROVE  /\ net[u][1].name \in ReadableFiles(u)
           /\ \A f \in Open(u) : OpenAs(u, f, net[u][1].name, n)
<1>1. ASSUME NEW f \in Open(u)
      PROVE  net[u][1].name \in ReadableFiles(u) /\ OpenAs(u, f, net[u][1].name, n)
    <2>1. PICK x \in ReadableFiles(u) : OpenAs(u, f, x, n)
        BY DEF WrittenInTurn
    <2>2. x = net[u][1].name
        BY <2>1 DEF OpenAs, FileAt
    <2> QED BY <2>1, <2>2
<1> QED BY <1>1

(* The answer "hash" is given to a message whose hash does not match. *)
LEMMA HashRefusal ==
    ASSUME NEW u \in Uploads, NEW m, status[u] # "hash", status'[u] = "hash",
           Consume(u, m) \/ CreateFileWithDir(u, m) \/ RecvFails(u) \/ Proceed(u)
    PROVE  VerifyHash(u, m) /\ ~ HashMatches(u, m) /\ UNCHANGED <<key, user, shared>>
<1>1. ~ Return(u, "error")
    BY DEF Return, End
<1>2. status' # status
    OBVIOUS
<1>3. ~ AddSchema(u)
    <2>1. ASSUME status' = [status EXCEPT ![u] = "ok"]
          PROVE  FALSE
        BY <1>2, <2>1
    <2> QED BY <1>1, <2>1 DEF AddSchema
<1>4. ~ (CreateFileWithDir(u, m) \/ RecvFails(u) \/ Proceed(u))
    BY <1>1, <1>2, <1>3 DEF CreateFileWithDir, RecvFails, Proceed, CleanDirectory, NewSchema,
                            CleanAndReturn
<1>5. ~ (CreateSchema(u, m) \/ NotCreateSchema(u, m) \/ NamelessFile(u, m)
         \/ WriteChunk(u, m) \/ WriteFails(u, m) \/ UnspecifiedHash(u, m)
         \/ Finalize(u, m) \/ UnexpectedMessage(u, m))
    BY <1>1, <1>2 DEF CreateSchema, NotCreateSchema, NamelessFile, WriteChunk, WriteFails,
                      UnspecifiedHash, Finalize, UnexpectedMessage, CleanAndReturn
<1>6. VerifyHash(u, m)
    BY <1>4, <1>5 DEF Consume
<1>7. ~ HashMatches(u, m) /\ CleanAndReturn(u, "hash")
    BY <1>1, <1>2, <1>6 DEF VerifyHash, CleanAndReturn
<1> QED BY <1>6, <1>7 DEF CleanAndReturn, Return, End

(* A hash that comes in its turn matches. *)
LEMMA HashInTurnMatches ==
    ASSUME NEW u \in Uploads, HashMethod[u] = "md5", Alone(u), NEW m \in ClientMessages(u),
           IsHash(m), NEW n, n = Len(Local[u][m.name]) + 1,
           OpenAs(u, FileName(u, m), m.name, n)
    PROVE  HashMatches(u, m)
<1> DEFINE x == m.name
<1>1. /\ Local[u][x] \in Seq(Chunks) /\ m.contents = None /\ m.hash.method = "md5"
      /\ m.hash.sum = Digest(HashMethod[u], Local[u][x])
    BY PartFacts DEF IsHash
<1>2. n - 1 = Len(Local[u][x])
    <2>1. Len(Local[u][x]) \in Nat
        BY <1>1
    <2> QED BY <2>1
<1>3. data[handled[u][FileName(u, m)].ino] = Local[u][x]
    BY <1>1, <1>2, FileEnds DEF OpenAs
<1> QED BY <1>1, <1>3 DEF HashMatches, ReadBack, Updated

(* The numbering of what is left when the first message is received. *)
LEMMA TurnsShift ==
    ASSUME NEW u \in Uploads, ClientOK(u), ClientWaits(u), net[u] # <<>>,
           net'[u] = Tail(net[u]), NEW turn \in Turns(u), InTurn(u, turn)
    PROVE  /\ \E next \in Turns(u)' : InTurn(u, next)' /\ next[1] = turn[2]
           /\ \A f : FileAt(u, 2, f) => FileAt(u, 1, f)'
<1>1. PICK s, t : s = net[u] /\ t = net'[u]
    OBVIOUS
<1>2. s \in Seq(ClientMessages(u)) /\ Len(s) \in Nat \ {0}
    BY <1>1 DEF ClientOK, StreamOK
<1>3. Len(t) = Len(s) - 1 /\ \A k \in 1..Len(t) : t[k] = s[k + 1]
    BY <1>1, <1>2, HeadTailProperties
<1>4. PICK next : next = [k \in 1..(Len(t) + 1) |-> turn[k + 1]]
    OBVIOUS
<1>5. /\ next \in Turns(u)' /\ next[1] = turn[2]
      /\ \A k \in 1..(Len(t) + 1) : next[k] = turn[k + 1]
    <2>1. turn \in [1..(Len(s) + 1) -> Nat \ {0}]
        BY <1>1 DEF Turns
    <2>2. /\ \A k \in 1..(Len(t) + 1) : k + 1 \in 1..(Len(s) + 1) /\ next[k] = turn[k + 1]
          /\ next \in [1..(Len(t) + 1) -> Nat \ {0}]
        BY <1>2, <1>3, <1>4, <2>1
    <2>3. 1 \in 1..(Len(t) + 1) /\ 1 + 1 = 2
        BY <1>2, <1>3
    <2> QED BY <1>1, <2>2, <2>3 DEF Turns
<1>6. ASSUME NEW k \in Nat \ {0}, NEW f, FileAt(u, k + 1, f)
      PROVE  FileAt(u, k, f)'
    <2>1. CASE k <= Len(t)
        <3>1. k + 1 <= Len(s) /\ t[k] = s[k + 1]
            BY <1>2, <1>3, <2>1
        <3> QED BY <1>1, <1>6, <2>1, <3>1 DEF FileAt
    <2>2. CASE ~ (k <= Len(t))
        <3>1. ~ (k + 1 <= Len(s))
            BY <1>2, <1>3, <2>2
        <3> QED BY <1>1, <1>6, <2>2, <3>1 DEF FileAt, ClientWaits, NameAt, InFile
    <2> QED BY <2>1, <2>2
<1>7. next[Len(t) + 1] = at[u].chunk
    <2>1. Len(t) + 1 \in 1..(Len(t) + 1) /\ (Len(t) + 1) + 1 = Len(s) + 1
        BY <1>2, <1>3
    <2>2. next[Len(t) + 1] = turn[Len(s) + 1]
        BY <1>5, <2>1
    <2> QED BY <1>1, <2>2 DEF InTurn
<1>8. ASSUME NEW k \in 1..Len(t)
      PROVE  /\ Numbered(u, t[k], next[k], next[k + 1])
             /\ IsChunk(t[k]) => FileAt(u, k + 1, t[k].name)'
    <2>1. /\ k + 1 \in 1..Len(s) /\ t[k] = s[k + 1] /\ k + 1 \in Nat \ {0}
          /\ k \in 1..(Len(t) + 1) /\ k + 1 \in 1..(Len(t) + 1)
        BY <1>2, <1>3
    <2>2. next[k] = turn[k + 1] /\ next[k + 1] = turn[(k + 1) + 1]
        BY <1>5, <2>1
    <2>3. /\ Numbered(u, s[k + 1], turn[k + 1], turn[(k + 1) + 1])
          /\ IsChunk(s[k + 1]) => FileAt(u, (k + 1) + 1, s[k + 1].name)
        BY <1>1, <2>1 DEF InTurn
    <2> QED BY <1>6, <2>1, <2>2, <2>3
<1>9. InTurn(u, next)'
    BY <1>1, <1>7, <1>8 DEF InTurn, ClientWaits
<1>10. \A f : FileAt(u, 2, f) => FileAt(u, 1, f)'
    <2>1. 1 \in Nat \ {0} /\ 1 + 1 = 2
        OBVIOUS
    <2> QED BY <1>6, <2>1
<1> QED BY <1>5, <1>9, <1>10

(* The client of u has nothing to answer for once its stream is over. *)
LEMMA TurnsOver ==
    ASSUME NEW u \in Uploads, TurnsOK(u), at'[u] = at[u], Over(u)',
           HashMethod[u] = "md5" /\ key'[u] # None /\ Alone(u)' => status'[u] # "hash"
    PROVE  TurnsOK(u)'
BY DEF TurnsOK, Midway, NameAt, InFile, ReadableFiles

(* A chunk that comes in its turn. *)
LEMMA ChunkInTurn ==
    ASSUME FilesInv, NEW u \in Uploads, ClientOK(u), NEW m \in ClientMessages(u), WriteChunk(u, m),
           NEW n \in Nat \ {0}, WrittenInTurn(u, n), OpenAs(u, FileName(u, m), m.name, n),
           n <= Len(Local[u][m.name]), m.contents = Local[u][m.name][n],
           FileAt(u, 1, m.name)'
    PROVE  WrittenInTurn(u, n + 1)'
<1>1. PICK f, x, h : f = FileName(u, m) /\ x = m.name /\ h = handled[u][f]
    OBVIOUS
<1>2. /\ m.kind = "file" /\ m.hash = None /\ IsOpenFileOf(u, m) /\ f \in Open(u)
      /\ data' = [data EXCEPT ![h.ino] = Updated(u, m)]
      /\ handled' = [handled EXCEPT ![u][f].pos = @ + (IF m.contents = None THEN 0 ELSE 1)]
      /\ UNCHANGED <<key, user, shared>>
    BY <1>1 DEF WriteChunk, Write, IsOpenFileOf, IsFileOf
<1>3. x \in ReadableFiles(u) /\ Local[u][x] \in Seq(Chunks) /\ m.contents # None
    BY <1>1, <1>2, PartFacts
<1>4. f \in Files /\ h # None /\ h \in [ino : Inodes, pos : Nat]
    BY <1>1, <1>2, OpenFile
<1>5. /\ f = Target(u, x) /\ h.pos = n - 1
      /\ Alone(u) => data[h.ino] = SubSeq(Local[u][x], 1, n - 1)
    BY <1>1 DEF OpenAs
<1>6. handled \in [Uploads -> [Files -> {None} \union [ino : Inodes, pos : Nat]]]
      /\ data \in [Inodes -> Texts]
    BY DEF FilesInv, Shape, ShapeOf
<1>7. /\ handled'[u][f] = [h EXCEPT !.pos = n]
      /\ \A g \in Files : g # f => handled'[u][g] = handled[u][g]
    <2>1. handled'[u][f] = [h EXCEPT !.pos = h.pos + 1]
        BY <1>1, <1>2, <1>3, <1>4, <1>6
    <2>2. h.pos + 1 = n
        BY <1>5
    <2> QED BY <1>2, <1>4, <1>6, <2>1, <2>2
<1>8. handled'[u][f].ino = h.ino /\ handled'[u][f].pos = n
    BY <1>4, <1>7
<1>9. \A g \in Open(u)' : g = f
    <2>1. ASSUME NEW g \in Open(u)', g # f
          PROVE  FALSE
        <3>1. g \in Open(u)
            BY <1>7, <2>1 DEF Open
        <3> QED BY <1>2, <2>1, <3>1, OnlyOpen
    <2> QED BY <2>1
<1>10. f \in Open(u)'
    <2>1. [h EXCEPT !.pos = n] \in [ino : Inodes, pos : Nat]
        BY <1>4
    <2> QED BY <1>4, <1>7, <2>1, UploadAssumption DEF Open
<1>11. ASSUME Alone(u)'
       PROVE  data'[h.ino] = SubSeq(Local[u][x], 1, n)
    <2>1. Alone(u)
        BY <1>2, <1>11 DEF Alone, DirU
    <2>2. Updated(u, m) = WriteAt(data[h.ino], h.pos, m.contents)
        BY <1>1, <1>3 DEF Updated
    <2>3. data'[h.ino] = WriteAt(SubSeq(Local[u][x], 1, n - 1), n - 1, Local[u][x][n])
        BY <1>1, <1>2, <1>4, <1>5, <1>6, <2>1, <2>2
    <2>4. n \in 1..Len(Local[u][x])
        BY <1>1, <1>3
    <2> QED BY <1>3, <2>3, <2>4, WriteInTurn
<1>12. FileAt(u, 1, x)'
    <2>1. \A y : y = m.name => FileAt(u, 1, y)'
        OBVIOUS
    <2> QED BY <1>1, <2>1
<1>13. (n + 1) - 1 = n /\ n + 1 # 1
    OBVIOUS
<1>14. OpenAs(u, f, x, n + 1)'
    <2>1. f = Target(u, x)'
        BY <1>5 DEF Target
    <2> QED BY <1>8, <1>11, <1>12, <1>13, <2>1 DEF OpenAs
<1>15. \A g \in Open(u)' : \E y \in ReadableFiles(u)' : OpenAs(u, g, y, n + 1)'
    <2>1. x \in ReadableFiles(u)'
        BY <1>3 DEF ReadableFiles
    <2> QED BY <1>9, <1>14, <2>1
<1> QED BY <1>10, <1>15 DEF WrittenInTurn

(* A handler that is not receiving has nothing open. *)
LEMMA NothingOpen ==
    ASSUME NEW u \in Uploads, HandlerOK(u)', pc'[u] # "recv"
    PROVE  WrittenInTurn(u, 1)'
BY DEF HandlerOK, WrittenInTurn, Open

(* While messages are on their way the stream lasts. *)
LEMMA StreamLasts ==
    ASSUME NEW u \in Uploads, ClientOK(u), net[u] # <<>>, pc[u] # "done"
    PROVE  ~ Over(u) /\ status[u] = None
BY DEF ClientOK, StreamOK, OutcomeOK, Over

(* A message is received: the file it belongs to has the parts before it,  *)
(* and afterwards this part too.                                           *)
LEMMA TurnsAfterMessage ==
    ASSUME FilesInv, FilesInv', NEW u \in Uploads, ClientOK(u), TurnsOK(u), ClientWaits(u),
           net[u] # <<>>, Consume(u, Head(net[u])), net'[u] = Tail(net[u])
    PROVE  TurnsOK(u)'
<1>1. PICK m : m = Head(net[u])
    OBVIOUS
<1>2. /\ net[u] \in Seq(ClientMessages(u)) /\ 1 \in 1..Len(net[u]) /\ m = net[u][1]
      /\ m \in ClientMessages(u)
    BY <1>1 DEF ClientOK, StreamOK
<1>3. WellFormed(m) /\ Consume(u, m) /\ Shape
    BY <1>1, <1>2, MessageFacts DEF FilesInv
<1>4. /\ pc[u] \in {"first", "recv"}
      /\ \/ Fails(u)
         \/ pc[u] = "first" /\ m.kind = "create" /\ Begins(u, m.key)
         \/ pc[u] = "recv" /\ m.kind = "file" /\ m.hash = None /\ MovesTo(u, "recv")
         \/ /\ pc[u] = "recv" /\ m.kind = "file" /\ m.name \in Names /\ m.hash # None
            /\ Adds(u, m)
         \/ pc[u] = "recv" /\ m.kind = "final" /\ MovesTo(u, "parse")
    BY <1>3, ConsumeEffect
<1>5. ~ Over(u) /\ status[u] = None
    BY <1>4, StreamLasts
<1>6. PICK turn \in Turns(u) : InTurn(u, turn) /\ WrittenInTurn(u, turn[1])
    BY <1>5 DEF TurnsOK
<1>7. /\ Numbered(u, m, turn[1], turn[2])
      /\ IsChunk(m) => FileAt(u, 2, m.name)
    <2>1. 1 + 1 = 2
        OBVIOUS
    <2> QED BY <1>2, <1>6, <2>1 DEF InTurn
<1>8. ASSUME IsOpenFileOf(u, m)
      PROVE  OpenAs(u, FileName(u, m), m.name, turn[1])
    BY <1>2, <1>6, <1>8, OpenUnderName DEF IsOpenFileOf
<1>9. HashMethod[u] = "md5" /\ key'[u] # None /\ Alone(u)' => status'[u] # "hash"
    <2> SUFFICES ASSUME HashMethod[u] = "md5", Alone(u)', status'[u] = "hash"
                 PROVE  FALSE
        OBVIOUS
    <2>1. status[u] # "hash"
        BY <1>5, UploadAssumption DEF Statuses
    <2>2. VerifyHash(u, m) /\ ~ HashMatches(u, m) /\ UNCHANGED <<key, user, shared>>
        BY <1>3, <2>1, HashRefusal
    <2>3. Alone(u) /\ IsHash(m) /\ IsOpenFileOf(u, m)
        BY <2>2 DEF Alone, DirU, VerifyHash, IsOpenFileOf, IsFileOf, IsHash
    <2>4. turn[1] = Len(Local[u][m.name]) + 1
        BY <1>7, <2>3 DEF Numbered
    <2> QED BY <1>2, <1>8, <2>2, <2>3, <2>4, HashInTurnMatches
<1>10. CASE Over(u)'
    BY <1>9, <1>10, TurnsOver DEF ClientWaits
<1>11. CASE ~ Over(u)'
    <2>1. status'[u] = None /\ ~ Fails(u)
        BY <1>11 DEF Over, Fails
    <2>2. \A s \in Statuses : ~ Return(u, s)
        <3>1. \A s \in Statuses : s # None
            BY UploadAssumption
        <3>2. \A s \in Statuses : Return(u, s) => status'[u] = s
            BY DEF Return, End
        <3> QED BY <2>1, <3>1, <3>2
    <2>3. PICK next \in Turns(u)' : InTurn(u, next)' /\ next[1] = turn[2]
        BY <1>6, TurnsShift
    <2>4. \A f : FileAt(u, 2, f) => FileAt(u, 1, f)'
        BY <1>6, TurnsShift
    <2>5. turn[1] \in Nat \ {0} /\ HandlerOK(u)'
        BY <1>2 DEF Turns, FilesInv
    <2>6. WrittenInTurn(u, turn[2])'
        <3>1. CASE m.kind # "file"
            <4>1. turn[2] = 1 /\ pc'[u] # "recv"
                BY <1>4, <1>7, <2>1, <3>1 DEF Numbered, MovesTo, Begins
            <4> QED BY <2>5, <4>1, NothingOpen
        <3>2. CASE IsChunk(m)
            <4>1. WriteChunk(u, m)
                <5>1. ~ (NotCreateSchema(u, m) \/ NamelessFile(u, m) \/ UnspecifiedHash(u, m)
                         \/ CreateSchema(u, m) \/ VerifyHash(u, m) \/ WriteFails(u, m)
                         \/ Finalize(u, m) \/ UnexpectedMessage(u, m))
                    BY <2>2, <3>2 DEF NotCreateSchema, NamelessFile, UnspecifiedHash, WriteFails,
                       CreateSchema, VerifyHash, Finalize, UnexpectedMessage, CleanAndReturn,
                       IsChunk, Statuses
                <5> QED BY <1>3, <5>1 DEF Consume
            <4>2. /\ turn[1] <= Len(Local[u][m.name]) /\ m.contents = Local[u][m.name][turn[1]]
                  /\ turn[2] = turn[1] + 1 /\ FileAt(u, 1, m.name)'
                BY <1>7, <2>4, <3>2 DEF Numbered
            <4>3. WrittenInTurn(u, turn[1] + 1)'
                <5>1. OpenAs(u, FileName(u, m), m.name, turn[1])
                    BY <1>8, <4>1 DEF WriteChunk
                <5> QED BY <1>2, <1>6, <2>5, <4>1, <4>2, <5>1, ChunkInTurn
            <4> QED BY <4>2, <4>3
        <3>3. CASE IsHash(m)
            <4>1. VerifyHash(u, m)
                <5>1. ~ (NotCreateSchema(u, m) \/ NamelessFile(u, m) \/ UnspecifiedHash(u, m)
                         \/ CreateSchema(u, m) \/ WriteChunk(u, m) \/ WriteFails(u, m)
                         \/ Finalize(u, m) \/ UnexpectedMessage(u, m))
                    BY <2>2, <3>3 DEF NotCreateSchema, NamelessFile, UnspecifiedHash, WriteFails,
                       CreateSchema, WriteChunk, Finalize, UnexpectedMessage, IsHash,
                       CleanAndReturn, Statuses
                <5> QED BY <1>3, <5>1 DEF Consume
            <4>2. FileName(u, m) \in Open(u) /\ handled' = [handled EXCEPT ![u][FileName(u, m)] = None]
                BY <2>2, <4>1 DEF VerifyHash, IsOpenFileOf, CleanAndReturn, Statuses
            <4>3. PICK f : f = FileName(u, m)
                OBVIOUS
            <4>4. Open(u)' = {}
                <5>1. handled \in [Uploads -> [Files -> {None} \union [ino : Inodes, pos : Nat]]]
                    BY DEF FilesInv, Shape, ShapeOf
                <5>2. /\ handled'[u][f] = None
                      /\ \A g \in Files : g # f => handled'[u][g] = handled[u][g]
                    BY <4>2, <4>3, <5>1 DEF Open
                <5>3. ASSUME NEW g \in Files, handled'[u][g] # None
                      PROVE  FALSE
                    <6>1. g \in Open(u) /\ g # f
                        BY <5>2, <5>3 DEF Open
                    <6> QED BY <1>6, <4>2, <4>3, <6>1, OnlyOpen
                <5> QED BY <5>3 DEF Open
            <4>5. turn[2] = 1
                BY <1>7, <3>3 DEF Numbered
            <4> QED BY <4>4, <4>5 DEF WrittenInTurn
        <3> QED BY <3>1, <3>2, <3>3 DEF IsChunk, IsHash
    <2>7. Midway(u)'
        BY DEF TurnsOK, Midway, NameAt, InFile, ReadableFiles, ClientWaits
    <2> QED BY <1>9, <2>3, <2>6, <2>7 DEF TurnsOK
<1> QED BY <1>10, <1>11

(* The numbering is still right when neither stream nor sender moves. *)
LEMMA TurnsKept ==
    ASSUME NEW u \in Uploads, ClientWaits(u), net'[u] = net[u], NEW turn \in Turns(u),
           InTurn(u, turn)
    PROVE  /\ turn \in Turns(u)' /\ InTurn(u, turn)'
           /\ \A k, f : FileAt(u, k, f) => FileAt(u, k, f)'
<1>1. \A k, f : FileAt(u, k, f) => FileAt(u, k, f)'
    BY DEF FileAt, ClientWaits, NameAt, InFile
<1>2. turn \in Turns(u)'
    BY DEF Turns
<1> QED BY <1>1, <1>2 DEF InTurn, ClientWaits

(* A file is opened before its first part is written to it. *)
LEMMA TurnsAfterCreateFile ==
    ASSUME FilesInv, NEW u \in Uploads, ClientOK(u), TurnsOK(u), ClientWaits(u),
           net[u] # <<>>, CreateFileWithDir(u, Head(net[u])), net'[u] = net[u]
    PROVE  TurnsOK(u)'
<1>1. PICK m : m = Head(net[u])
    OBVIOUS
<1>2. /\ net[u] \in Seq(ClientMessages(u)) /\ 1 \in 1..Len(net[u]) /\ m = net[u][1]
      /\ m \in ClientMessages(u)
    BY <1>1 DEF ClientOK, StreamOK
<1>3. /\ WellFormed(m) /\ CreateFileWithDir(u, m) /\ Shape
      /\ pc[u] = "recv" /\ m.kind = "file" /\ FileName(u, m) \notin Open(u)
    BY <1>1, <1>2, MessageFacts DEF FilesInv, CreateFileWithDir, IsFileOf
<1>4. ~ Over(u) /\ status[u] = None
    BY <1>3, StreamLasts
<1>5. PICK turn \in Turns(u) : InTurn(u, turn) /\ WrittenInTurn(u, turn[1])
    BY <1>4 DEF TurnsOK
<1>6. Open(u) = {} /\ turn[1] = 1
    <2>1. ASSUME NEW f \in Open(u)
          PROVE  FALSE
        <3>1. OpenAs(u, f, m.name, turn[1])
            BY <1>2, <1>5, OpenUnderName
        <3>2. f = FileName(u, m)
            BY <1>3, <3>1, PathMeant DEF OpenAs
        <3> QED BY <1>3, <3>2
    <2> QED BY <1>5, <2>1 DEF WrittenInTurn
<1>7. status'[u] # "hash"
    <2>1. status[u] # "hash"
        BY <1>4, UploadAssumption DEF Statuses
    <2>2. ~ VerifyHash(u, m)
        BY <1>3 DEF VerifyHash, IsOpenFileOf
    <2> QED BY <1>3, <2>1, <2>2, HashRefusal
<1>8. CASE Return(u, "error") /\ UNCHANGED files
    <2>1. status'[u] = "error" /\ "error" # None
        BY <1>8, UploadAssumption DEF Return, End, Statuses
    <2>2. Over(u)'
        BY <2>1 DEF Over
    <2> QED BY <1>7, <2>2, TurnsOver DEF ClientWaits
<1>9. CASE ~ (Return(u, "error") /\ UNCHANGED files)
    <2>1. PICK f, x : f = FileName(u, m) /\ x = m.name
        OBVIOUS
    <2>2. f = Target(u, x)
        BY <1>3, <2>1, PathMeant
    <2>3. PICK i \in Inodes : CreatedAs(u, f, i)
        BY <1>3, <1>9, <2>1, CreatedFile
    <2>4. x \in ReadableFiles(u) /\ f \in Files /\ Local[u][x] \in Seq(Chunks)
        BY <1>2, <1>3, <1>9, <2>1, PartFacts, CreatedFile
    <2>5. /\ handled'[u][f] = [ino |-> i, pos |-> 0] /\ data'[i] = <<>>
          /\ \A g \in Files : g # f => handled'[u][g] = handled[u][g]
        BY <2>3, <2>4 DEF CreatedAs
    <2>6. Open(u)' = {f}
        <3>1. [ino |-> i, pos |-> 0] # None
            BY UploadAssumption
        <3>2. \A g \in Files : g # f => handled[u][g] = None
            BY <1>6 DEF Open
        <3> QED BY <2>4, <2>5, <3>1, <3>2 DEF Open
    <2>7. turn \in Turns(u)' /\ InTurn(u, turn)' /\ FileAt(u, 1, x)'
        <3>1. FileAt(u, 1, x)
            BY <1>2, <1>3, <2>1 DEF FileAt
        <3> QED BY <1>5, <3>1, TurnsKept
    <2>8. WrittenInTurn(u, 1)'
        <3>1. handled'[u][f].pos = 1 - 1 /\ handled'[u][f].ino = i
            BY <2>5
        <3>2. data'[i] = SubSeq(Local[u][x], 1, 1 - 1)
            BY <2>4, <2>5, FileEnds
        <3>3. OpenAs(u, f, x, 1)'
            BY <2>2, <2>7, <3>1, <3>2 DEF OpenAs, Target
        <3>4. x \in ReadableFiles(u)'
            BY <2>4 DEF ReadableFiles
        <3> QED BY <2>6, <3>3, <3>4 DEF WrittenInTurn
    <2>9. Midway(u)'
        BY DEF TurnsOK, Midway, NameAt, InFile, ReadableFiles, ClientWaits
    <2> QED BY <1>6, <1>7, <2>7, <2>8, <2>9 DEF TurnsOK
<1> QED BY <1>8, <1>9

(* The handler goes on by itself: nothing is open. *)
LEMMA TurnsAfterProceed ==
    ASSUME FilesInv, FilesInv', NEW u \in Uploads, ClientOK(u), TurnsOK(u), ClientWaits(u),
           net'[u] = net[u], Proceed(u) \/ (RecvFails(u) /\ ~ linked[u])
    PROVE  TurnsOK(u)'
<1>1. Shape /\ HandlerOK(u) /\ HandlerOK(u)'
    BY DEF FilesInv
<1>2. /\ pc[u] # "done"
      /\ \/ Fails(u)
         \/ pc[u] = "clean" /\ MovesTo(u, "recv")
         \/ pc[u] = "parse" /\ MovesTo(u, "add")
         \/ pc[u] = "add" /\ pc'[u] = "done" /\ status'[u] = "ok"
    BY <1>1, ProceedEffect
<1>3. status'[u] # "hash"
    <2>1. status[u] = None
        BY <1>2 DEF ClientOK, OutcomeOK
    <2>2. status[u] # "hash"
        BY <2>1, UploadAssumption DEF Statuses
    <2>3. PICK m : m = [kind |-> "final"]
        OBVIOUS
    <2>4. ~ VerifyHash(u, m)
        BY <2>3 DEF VerifyHash, IsOpenFileOf, IsFileOf
    <2> QED BY <2>2, <2>4, HashRefusal
<1>4. CASE Over(u)'
    BY <1>3, <1>4, TurnsOver DEF ClientWaits
<1>5. CASE ~ Over(u)'
    <2>1. status'[u] = None /\ ~ Over(u)
        <3>1. status'[u] = None /\ linked[u] /\ main[u] \notin Ended
            BY <1>5 DEF Over, ClientWaits
        <3> QED BY <1>2, <3>1 DEF Over, ClientOK, OutcomeOK
    <2>2. /\ pc[u] \in {"clean", "parse"} 
          /\ \/ pc[u] = "clean" /\ CleanDirectory(u) /\ ~ Return(u, "error")
             \/ pc[u] = "parse" /\ pc'[u] = "add"
        <3>1. ~ Fails(u) /\ "ok" # None
            BY <2>1, UploadAssumption DEF Fails, Statuses
        <3>2. CASE pc[u] = "clean" /\ MovesTo(u, "recv")
            <4>1. CleanDirectory(u)
                BY <3>2 DEF Proceed, RecvFails, NewSchema, AddSchema
            <4>2. ~ Return(u, "error")
                BY <3>2 DEF Return, End, MovesTo
            <4> QED BY <3>2, <4>1, <4>2
        <3> QED BY <1>2, <2>1, <3>1, <3>2 DEF MovesTo
    <2>3. PICK turn \in Turns(u) : InTurn(u, turn) /\ WrittenInTurn(u, turn[1])
        BY <2>1 DEF TurnsOK
    <2>4. Open(u) = {} /\ turn[1] = 1
        <3>1. Open(u) = {}
            BY <1>1, <2>2 DEF HandlerOK, Open
        <3> QED BY <2>3, <3>1 DEF WrittenInTurn
    <2>5. Open(u)' = {}
        BY <1>1, <2>2, <2>4 DEF CleanDirectory, HandlerOK, Open
    <2>6. WrittenInTurn(u, 1)'
        BY <2>5 DEF WrittenInTurn
    <2>7. turn \in Turns(u)' /\ InTurn(u, turn)'
        BY <2>3, TurnsKept
    <2>8. Midway(u)'
        BY DEF TurnsOK, Midway, NameAt, InFile, ReadableFiles, ClientWaits
    <2> QED BY <1>3, <2>4, <2>6, <2>7, <2>8 DEF TurnsOK
<1> QED BY <1>4, <1>5

-----------------------------------------------------------------------------
(* The steps of the client *)

(* m is what is sent at p, and then the sender is at q. *)
SentInTurn(u, m, p, q) ==
    /\ Numbered(u, m, p.chunk, q.chunk)
    /\ InFile(u, p) => m.kind = "file" /\ m.name = NameAt(u, p)
    /\ IsChunk(m) => InFile(u, q) /\ NameAt(u, q) = m.name
    /\ q.chunk # 1 => InFile(u, q) /\ NameAt(u, q) \in ReadableFiles(u)

(* A message sent in its turn is numbered as the sender's position. *)
LEMMA TurnsAppend ==
    ASSUME NEW u \in Uploads, ClientOK(u), NEW m, NEW q, q.chunk \in Nat \ {0},
           SentInTurn(u, m, at[u], q), at'[u] = q, net'[u] = Append(net[u], m),
           m \in ClientMessages(u), NEW turn \in Turns(u), InTurn(u, turn)
    PROVE  /\ \E next \in Turns(u)' : InTurn(u, next)' /\ next[1] = turn[1]
           /\ \A f : FileAt(u, 1, f) => FileAt(u, 1, f)'
<1>1. PICK s, t, p : s = net[u] /\ t = net'[u] /\ p = at[u]
    OBVIOUS
<1>2. s \in Seq(ClientMessages(u)) /\ Len(s) \in Nat /\ t = Append(s, m)
    BY <1>1 DEF ClientOK, StreamOK
<1>3. Len(t) = Len(s) + 1 /\ t[Len(s) + 1] = m /\ \A k \in 1..Len(s) : t[k] = s[k]
    BY <1>2
<1>4. PICK next : next = [k \in 1..(Len(t) + 1) |-> IF k <= Len(s) + 1 THEN turn[k] ELSE q.chunk]
    OBVIOUS
<1>5. turn \in [1..(Len(s) + 1) -> Nat \ {0}] /\ turn[Len(s) + 1] = p.chunk
    BY <1>1 DEF Turns, InTurn
<1>6. /\ next \in [1..(Len(t) + 1) -> Nat \ {0}]
      /\ \A k \in 1..(Len(s) + 1) : next[k] = turn[k]
      /\ next[Len(t) + 1] = q.chunk
    BY <1>2, <1>3, <1>4, <1>5
<1>7. ASSUME NEW k \in 1..(Len(s) + 1), NEW f, FileAt(u, k, f)
      PROVE  FileAt(u, k, f)'
    <2>1. k <= Len(t)
        BY <1>2, <1>3
    <2>2. CASE k <= Len(s)
        <3>1. k \in 1..Len(s)
            BY <1>2, <2>2
        <3>2. t[k] = s[k]
            BY <1>3, <3>1
        <3> QED BY <1>1, <1>7, <2>1, <2>2, <3>2 DEF FileAt
    <2>3. CASE ~ (k <= Len(s))
        <3>1. k = Len(s) + 1
            BY <1>2, <2>3
        <3>2. t[k] = m
            BY <1>3, <3>1
        <3>3. InFile(u, p) /\ NameAt(u, p) = f
            BY <1>1, <1>7, <2>3 DEF FileAt
        <3>4. m.kind = "file" /\ m.name = f
            BY <1>1, <3>3 DEF SentInTurn
        <3> QED BY <1>1, <2>1, <3>2, <3>4 DEF FileAt
    <2> QED BY <2>2, <2>3
<1>8. ASSUME NEW k \in 1..Len(t)
      PROVE  /\ Numbered(u, t[k], next[k], next[k + 1])
             /\ IsChunk(t[k]) => FileAt(u, k + 1, t[k].name)'
    <2>1. CASE k = Len(s) + 1
        <3>1. next[k] = p.chunk /\ next[k + 1] = q.chunk /\ t[k] = m /\ ~ (k + 1 <= Len(t))
            BY <1>2, <1>3, <1>5, <1>6, <2>1
        <3>2. Numbered(u, m, p.chunk, q.chunk)
            BY <1>1 DEF SentInTurn
        <3>3. IsChunk(m) => InFile(u, q) /\ NameAt(u, q) = m.name
            BY DEF SentInTurn
        <3>4. ASSUME IsChunk(m), NEW x, x = m.name, NEW l, l = k + 1
              PROVE  FileAt(u, l, x)'
            BY <1>1, <3>1, <3>3, <3>4 DEF FileAt, NameAt, InFile
        <3>5. PICK x, l : x = t[k].name /\ l = k + 1
            OBVIOUS
        <3> QED BY <3>1, <3>2, <3>4, <3>5
    <2>2. CASE k # Len(s) + 1
        <3>1. k \in 1..Len(s) /\ k \in 1..(Len(s) + 1) /\ k + 1 \in 1..(Len(s) + 1)
            BY <1>2, <1>3, <2>2
        <3>2. t[k] = s[k] /\ next[k] = turn[k] /\ next[k + 1] = turn[k + 1]
            BY <1>3, <1>6, <3>1
        <3>3. /\ Numbered(u, s[k], turn[k], turn[k + 1])
              /\ IsChunk(s[k]) => FileAt(u, k + 1, s[k].name)
            BY <1>1, <3>1 DEF InTurn
        <3> QED BY <1>7, <3>1, <3>2, <3>3
    <2> QED BY <2>1, <2>2
<1>9. InTurn(u, next)'
    BY <1>1, <1>6, <1>8 DEF InTurn
<1>10. 1 \in 1..(Len(s) + 1)
    BY <1>2
<1> QED BY <1>1, <1>6, <1>7, <1>9, <1>10 DEF Turns

(* Who has nothing to do with a step of a client. *)
LEMMA ClientStepOthers ==
    ASSUME UploadInv, UNCHANGED vars, NEW o \in Uploads, TurnsOK(o), ClientWaits(o),
           net'[o] = net[o]
    PROVE  TurnsOK(o)'
<1>1. Untouched(o)
    BY DEF vars, files, server, Untouched, Alone, DirU
<1> QED BY <1>1, TurnsSame DEF UploadInv

(* The sender sends, or fails to. *)
LEMMA TurnsAfterSend ==
    ASSUME UploadInv, \A o \in Uploads : TurnsOK(o), UNCHANGED <<vars, main, linked>>,
           NEW u \in Uploads, NEW m \in ClientMessages(u), NEW next, NEW other,
           NEW sent \in BOOLEAN, Send(u, m, sent), MoveTo(u, IF sent THEN next ELSE other),
           next.chunk \in Nat \ {0}, other.chunk = 1, SentInTurn(u, m, at[u], next)
    PROVE  \A o \in Uploads : TurnsOK(o)'
<1>1. UNCHANGED vars /\ main' = main /\ linked' = linked
    OBVIOUS
<1>2. \/ Over(u) /\ net' = net /\ at' = [at EXCEPT ![u] = next]
      \/ ~ Over(u) /\ net' = [net EXCEPT ![u] = Append(net[u], m)] /\ at' = [at EXCEPT ![u] = next]
      \/ Over(u) /\ net' = net /\ at' = [at EXCEPT ![u] = other]
    BY DEF Send, MoveTo
<1>3. ClientShape /\ ClientOK(u) /\ FilesInv
    BY DEF UploadInv
<1>4. ASSUME NEW o \in Uploads, o # u
      PROVE  TurnsOK(o)'
    <2>1. ClientWaits(o) /\ net'[o] = net[o]
        BY <1>1, <1>2, <1>3, <1>4 DEF ClientShape, ClientWaits
    <2> QED BY <1>1, <2>1, ClientStepOthers
<1>5. /\ pc' = pc /\ key' = key /\ status' = status /\ handled' = handled /\ data' = data
      /\ Alone(u)' = Alone(u) /\ Open(u)' = Open(u) /\ Over(u)' = Over(u)
    BY <1>1 DEF vars, files, server, Alone, DirU, Open, Over
<1>6. at'[u] = next \/ (Over(u) /\ at'[u] = other)
    BY <1>2, <1>3 DEF ClientShape
<1>7. Midway(u)'
    BY <1>6 DEF SentInTurn, Midway, NameAt, InFile, ReadableFiles
<1>8. HashMethod[u] = "md5" /\ key'[u] # None /\ Alone(u)' => status'[u] # "hash"
    BY <1>5 DEF TurnsOK
<1>9. ASSUME Over(u)
      PROVE  TurnsOK(u)'
    BY <1>5, <1>7, <1>8, <1>9 DEF TurnsOK
<1>10. ASSUME ~ Over(u)
       PROVE  TurnsOK(u)'
    <2>1. at'[u] = next /\ net'[u] = Append(net[u], m)
        BY <1>2, <1>3, <1>10 DEF ClientShape
    <2>2. PICK turn \in Turns(u) : InTurn(u, turn) /\ WrittenInTurn(u, turn[1])
        BY <1>10 DEF TurnsOK
    <2>3. PICK more \in Turns(u)' : InTurn(u, more)' /\ more[1] = turn[1]
        BY <1>3, <2>1, <2>2, TurnsAppend
    <2>4. \A f : FileAt(u, 1, f) => FileAt(u, 1, f)'
        BY <1>3, <2>1, <2>2, TurnsAppend
    <2>5. net'[u] # <<>>
        BY <1>3, <2>1 DEF ClientOK, StreamOK
    <2>6. WrittenInTurn(u, turn[1])'
        BY <1>5, <2>2, <2>4, <2>5, StillWritten
    <2> QED BY <1>7, <1>8, <2>3, <2>6 DEF TurnsOK
<1> QED BY <1>4, <1>9, <1>10

(* The first message and the last one. *)
LEMMA TurnsAfterEnds ==
    ASSUME HashInv, NEW u \in Uploads, SendCreate(u) \/ SendFinalize(u)
    PROVE  \A o \in Uploads : TurnsOK(o)'
<1>1. /\ UploadInv /\ \A o \in Uploads : TurnsOK(o)
      /\ NArgs(u) \in Nat /\ UNCHANGED <<vars, main, linked>>
    BY ArgFacts DEF SendCreate, SendFinalize, HashInv
<1>2. ~ InFile(u, at[u]) /\ at[u].chunk = 1
    <2>1. ~ InFile(u, at[u])
        BY <1>1 DEF SendCreate, SendFinalize, InFile
    <2> QED BY <1>1, <2>1 DEF TurnsOK, Midway
<1>3. ASSUME NEW m \in ClientMessages(u), m.kind # "file", NEW q, q.chunk = 1
      PROVE  SentInTurn(u, m, at[u], q)
    BY <1>2, <1>3 DEF SentInTurn, Numbered, IsChunk, IsHash
<1>4. CASE SendCreate(u)
    <2>1. PICK m, q : m = [kind |-> "create", key |-> KeyOf[u]] /\ q = At(1, 1, 1)
        OBVIOUS
    <2>2. /\ m \in ClientMessages(u) /\ m.kind # "file" /\ q.chunk = 1
        BY <2>1 DEF ClientMessages, At
    <2>3. PICK sent \in BOOLEAN : Send(u, m, sent) /\ MoveTo(u, IF sent THEN q ELSE q)
        BY <1>4, <2>1 DEF SendCreate
    <2> QED BY <1>1, <1>3, <2>2, <2>3, TurnsAfterSend
<1>5. CASE SendFinalize(u)
    <2>1. PICK m, q : m = [kind |-> "final"] /\ q = At(NArgs(u) + 2, 1, 1)
        OBVIOUS
    <2>2. /\ m \in ClientMessages(u) /\ m.kind # "file" /\ q.chunk = 1
        BY <2>1 DEF ClientMessages, At
    <2>3. PICK sent \in BOOLEAN : Send(u, m, sent) /\ MoveTo(u, IF sent THEN q ELSE q)
        BY <1>5, <2>1 DEF SendFinalize
    <2> QED BY <1>1, <1>3, <2>2, <2>3, TurnsAfterSend
<1> QED BY <1>4, <1>5

(* A walk ends before anything is sent of a file. *)
LEMMA TurnsAfterSkip ==
    ASSUME HashInv, NEW u \in Uploads, UNCHANGED <<vars, main, linked, net>>,
           InFile(u, at[u]) => Local[u][NameAt(u, at[u])] = Unreadable,
           NEW q, q.chunk = 1, MoveTo(u, q)
    PROVE  \A o \in Uploads : TurnsOK(o)'
<1>1. /\ UploadInv /\ \A o \in Uploads : TurnsOK(o)
      /\ FilesInv /\ ClientShape /\ ClientOK(u)
    BY DEF HashInv, UploadInv
<1>2. UNCHANGED vars /\ main' = main /\ linked' = linked /\ net' = net /\ at'[u] = q
      /\ at' = [at EXCEPT ![u] = q]
    BY <1>1 DEF ClientShape, MoveTo
<1>3. ASSUME NEW o \in Uploads, o # u
      PROVE  TurnsOK(o)'
    <2>1. ClientWaits(o) /\ net'[o] = net[o]
        BY <1>1, <1>2, <1>3 DEF ClientShape, ClientWaits
    <2> QED BY <1>1, <1>2, <2>1, ClientStepOthers
<1>4. /\ pc' = pc /\ key' = key /\ status' = status /\ handled' = handled /\ data' = data
      /\ Alone(u)' = Alone(u) /\ Open(u)' = Open(u) /\ Over(u)' = Over(u)
    BY <1>2 DEF vars, files, server, Alone, DirU, Open, Over
<1>5. at[u].chunk = 1
    BY <1>1 DEF TurnsOK, Midway, ReadableFiles
<1>6. Midway(u)'
    BY <1>2 DEF Midway
<1>7. HashMethod[u] = "md5" /\ key'[u] # None /\ Alone(u)' => status'[u] # "hash"
    BY <1>1, <1>4 DEF TurnsOK
<1>8. ASSUME ~ Over(u)
      PROVE  \E turn \in Turns(u)' : InTurn(u, turn)' /\ WrittenInTurn(u, turn[1])'
    <2>1. PICK turn \in Turns(u) : InTurn(u, turn) /\ WrittenInTurn(u, turn[1])
        BY <1>1, <1>8 DEF TurnsOK
    <2>2. PICK s : s = net[u]
        OBVIOUS
    <2>3. /\ s \in Seq(ClientMessages(u)) /\ Len(s) \in Nat
          /\ turn \in [1..(Len(s) + 1) -> Nat \ {0}] /\ turn[Len(s) + 1] = 1
        BY <1>1, <1>5, <2>1, <2>2 DEF ClientOK, StreamOK, Turns, InTurn
    <2>4. turn \in Turns(u)'
        BY <1>2, <2>1 DEF Turns
    <2>5. ASSUME NEW k, NEW f, k <= Len(s), FileAt(u, k, f)
          PROVE  FileAt(u, k, f)'
        BY <1>2, <2>2, <2>5 DEF FileAt
    <2>6. ASSUME NEW k \in 1..Len(s)
          PROVE  /\ Numbered(u, s[k], turn[k], turn[k + 1])
                 /\ IsChunk(s[k]) => FileAt(u, k + 1, s[k].name)'
        <3>1. /\ Numbered(u, s[k], turn[k], turn[k + 1])
              /\ IsChunk(s[k]) => FileAt(u, k + 1, s[k].name)
            BY <2>1, <2>2 DEF InTurn
        <3>2. IsChunk(s[k]) => k + 1 <= Len(s)
            <4>1. turn[k] \in Nat \ {0} /\ (IsChunk(s[k]) => turn[k + 1] = turn[k] + 1)
                BY <2>3, <3>1 DEF Numbered
            <4>2. IsChunk(s[k]) => turn[k + 1] # turn[Len(s) + 1]
                BY <2>3, <4>1
            <4>3. k = Len(s) \/ k + 1 <= Len(s)
                BY <2>3
            <4> QED BY <4>2, <4>3
        <3> QED BY <2>5, <3>1, <3>2
    <2>7. InTurn(u, turn)'
        BY <1>2, <2>2, <2>3, <2>6 DEF InTurn
    <2>8. WrittenInTurn(u, turn[1])'
        <3>1. ASSUME NEW x, FileAt(u, 1, x), turn[1] # 1 \/ s # <<>>
              PROVE  FileAt(u, 1, x)'
            <4>1. s = <<>> => Len(s) + 1 = 1
                OBVIOUS
            <4>2. s # <<>>
                BY <2>3, <3>1, <4>1
            <4>3. 1 <= Len(s)
                BY <2>3, <4>2
            <4> QED BY <2>5, <3>1, <4>3
        <3> QED BY <1>2, <1>4, <2>1, <2>2, <3>1, StillWritten
    <2> QED BY <2>4, <2>7, <2>8
<1>9. TurnsOK(u)'
    BY <1>4, <1>6, <1>7, <1>8 DEF TurnsOK
<1> QED BY <1>3, <1>9

(* A step of the walk through the files. *)
LEMMA TurnsAfterUploadFile ==
    ASSUME HashInv, NEW u \in Uploads, UploadFile(u)
    PROVE  \A o \in Uploads : TurnsOK(o)'
<1>1. PICK p, a, i, j, walk, ft, x :
          /\ p = at[u] /\ a = p.arg /\ i = p.file /\ j = p.chunk
          /\ walk = Args[u][a].files /\ ft = Args[u][a].ft /\ x = walk[i]
    OBVIOUS
<1>2. PICK skip, after : skip = At(a + 1, 1, 1) /\ after = At(a, i + 1, 1)
    OBVIOUS
<1>3. /\ a \in 1..NArgs(u)
      /\ \/ /\ i <= Len(walk) => Local[u][x] = Unreadable
            /\ MoveTo(u, skip) /\ UNCHANGED net
         \/ /\ i <= Len(walk) /\ Local[u][x] # Unreadable /\ j <= Len(Local[u][x])
            /\ \E sent \in BOOLEAN : /\ Send(u, ChunkMessage(u, x, ft, j), sent)
                                     /\ MoveTo(u, IF sent THEN At(a, i, j + 1) ELSE skip)
         \/ /\ i <= Len(walk) /\ Local[u][x] # Unreadable /\ j > Len(Local[u][x])
            /\ \E sent \in BOOLEAN : /\ Send(u, HashMessage(u, x, ft), sent)
                                     /\ MoveTo(u, IF sent THEN after ELSE skip)
    <2>1. a \in 1..NArgs(u)
        BY <1>1 DEF UploadFile
    <2>2. \/ i > Len(walk) /\ EndWalk(u, FALSE) /\ UNCHANGED net
          \/ Local[u][x] = Unreadable /\ EndWalk(u, TRUE) /\ UNCHANGED net
          \/ /\ i <= Len(walk) /\ Local[u][x] # Unreadable /\ j <= Len(Local[u][x])
             /\ \E sent \in BOOLEAN : /\ Send(u, ChunkMessage(u, x, ft, j), sent)
                                      /\ IF sent THEN MoveTo(u, At(a, i, j + 1)) ELSE EndWalk(u, TRUE)
          \/ /\ i <= Len(walk) /\ Local[u][x] # Unreadable /\ j > Len(Local[u][x])
             /\ \E sent \in BOOLEAN : /\ Send(u, HashMessage(u, x, ft), sent)
                                      /\ IF sent THEN MoveTo(u, after) ELSE EndWalk(u, TRUE)
        BY <1>1, <1>2, Zenon DEF UploadFile
    <2>3. \A e : EndWalk(u, e) => MoveTo(u, skip)
        BY <1>1, <1>2 DEF EndWalk
    <2>4. i \in Nat /\ Len(walk) \in Nat
        BY <1>1, <2>1, ArgFacts DEF HashInv, UploadInv, ClientShape
    <2>5. i > Len(walk) => ~ (i <= Len(walk))
        BY <2>4
    <2> QED BY <2>1, <2>2, <2>3, <2>5
<1>4. UNCHANGED <<vars, main, linked>>
    BY DEF UploadFile
<1>5. /\ UploadInv /\ \A o \in Uploads : TurnsOK(o)
      /\ PositionOK(u, p) /\ NameAt(u, p) = x
    BY <1>1 DEF HashInv, UploadInv, ClientOK, NameAt
<1>6. InFile(u, p) <=> i <= Len(walk)
    BY <1>1, <1>3 DEF InFile
<1>7. j \in Nat \ {0} /\ ft \in FileTypes
    BY <1>1, <1>3, <1>5, ArgFacts DEF PositionOK
<1>8. skip.chunk = 1 /\ after.chunk = 1 /\ after.chunk \in Nat \ {0}
    BY <1>2 DEF At
<1>9. CASE (i <= Len(walk) => Local[u][x] = Unreadable) /\ MoveTo(u, skip) /\ UNCHANGED net
    <2>1. UNCHANGED <<vars, main, linked, net>>
        BY <1>4, <1>9
    <2>2. InFile(u, at[u]) => Local[u][NameAt(u, at[u])] = Unreadable
        BY <1>1, <1>5, <1>6, <1>9
    <2> QED BY <1>8, <1>9, <2>1, <2>2, TurnsAfterSkip
<1>10. ASSUME i <= Len(walk), Local[u][x] # Unreadable
       PROVE  /\ Local[u][x] \in Seq(Chunks) /\ Len(Local[u][x]) \in Nat /\ x \in ReadableFiles(u)
              /\ j <= Len(Local[u][x]) + 1
    <2>1. x \in Names
        <3>1. i \in 1..(Len(walk) + 1) /\ Len(walk) \in Nat /\ \A l \in 1..Len(walk) : walk[l] \in Names
            BY <1>1, <1>3, <1>5, ArgFacts DEF PositionOK
        <3>2. i \in 1..Len(walk)
            BY <1>10, <3>1
        <3> QED BY <1>1, <3>1, <3>2
    <2>2. j <= Len(Local[u][x]) + 1
        BY <1>1, <1>3, <1>5, <1>10 DEF PositionOK
    <2> QED BY <1>10, <2>1, <2>2, ReadableHasLength DEF ReadableFiles
<1>11. CASE /\ i <= Len(walk) /\ Local[u][x] # Unreadable /\ j <= Len(Local[u][x])
            /\ \E sent \in BOOLEAN : /\ Send(u, ChunkMessage(u, x, ft, j), sent)
                                     /\ MoveTo(u, IF sent THEN At(a, i, j + 1) ELSE skip)
    <2>1. PICK m, q : m = ChunkMessage(u, x, ft, j) /\ q = At(a, i, j + 1)
        OBVIOUS
    <2>2. j \in 1..Len(Local[u][x])
        BY <1>7, <1>10, <1>11
    <2>3. /\ m.kind = "file" /\ m.name = x /\ m.hash = None /\ m.contents = Local[u][x][j]
          /\ q.arg = a /\ q.file = i /\ q.chunk = j + 1
        BY <2>1 DEF ChunkMessage, At
    <2>4. m \in ClientMessages(u)
        <3>1. m \in ChunkMessages(u, x, ft)
            BY <2>1, <2>2 DEF ChunkMessages
        <3> QED BY <1>7, <1>10, <1>11, <3>1 DEF ClientMessages
    <2>5. NameAt(u, q) = x /\ InFile(u, q)
        BY <1>1, <1>3, <1>11, <2>3 DEF NameAt, InFile
    <2>6. SentInTurn(u, m, p, q)
        BY <1>1, <1>5, <1>10, <1>11, <2>3, <2>5 DEF SentInTurn, Numbered, IsChunk, IsHash
    <2>7. q.chunk \in Nat \ {0}
        BY <1>7, <2>3
    <2>8. PICK sent \in BOOLEAN : Send(u, m, sent) /\ MoveTo(u, IF sent THEN q ELSE skip)
        BY <1>11, <2>1
    <2> QED BY <1>1, <1>4, <1>5, <1>8, <2>4, <2>6, <2>7, <2>8, TurnsAfterSend
<1>12. CASE /\ i <= Len(walk) /\ Local[u][x] # Unreadable /\ j > Len(Local[u][x])
            /\ \E sent \in BOOLEAN : /\ Send(u, HashMessage(u, x, ft), sent)
                                     /\ MoveTo(u, IF sent THEN after ELSE skip)
    <2>1. PICK m : m = HashMessage(u, x, ft)
        OBVIOUS
    <2>2. m.kind = "file" /\ m.name = x
        BY <2>1 DEF HashMessage
    <2>3. m.hash # None
        <3>1. m.hash = [method |-> "md5", sum |-> <<HashMethod[u], Local[u][x]>>]
            BY <2>1 DEF HashMessage, CalcHash, Digest
        <3> QED BY <1>10, <1>12, <3>1, ClientAssumption
    <2>4. m \in ClientMessages(u)
        BY <1>7, <1>10, <1>12, <2>1 DEF ClientMessages
    <2>5. j = Len(Local[u][x]) + 1
        BY <1>7, <1>10, <1>12
    <2>6. SentInTurn(u, m, p, after)
        BY <1>1, <1>5, <1>8, <2>2, <2>3, <2>5 DEF SentInTurn, Numbered, IsChunk, IsHash
    <2>7. PICK sent \in BOOLEAN : Send(u, m, sent) /\ MoveTo(u, IF sent THEN after ELSE skip)
        BY <1>12, <2>1
    <2> QED BY <1>1, <1>4, <1>5, <1>8, <2>4, <2>6, <2>7, TurnsAfterSend
<1> QED BY <1>3, <1>9, <1>11, <1>12

(* The steps that send nothing. *)
LEMMA TurnsAfterWaiting ==
    ASSUME HashInv, NEW u \in Uploads,
           \/ CheckSent(u) \/ PutError(u) \/ CloseErrors(u)
           \/ MainStep(u) \/ Disconnect(u)
    PROVE  \A o \in Uploads : TurnsOK(o)'
<1>1. UploadInv /\ ClientShape /\ \A o \in Uploads : TurnsOK(o)
    BY DEF HashInv, UploadInv
<1>2. UNCHANGED vars /\ at' = at
    BY DEF CheckSent, PutError, CloseErrors, MainStep, AwaitSender, AwaitReceiver, CheckErr,
           Disconnect
<1>3. \A o \in Uploads \ {u} : ClientWaits(o) /\ net'[o] = net[o]
    BY <1>1, <1>2 DEF CheckSent, PutError, CloseErrors, MainStep, AwaitSender, AwaitReceiver,
                      CheckErr, Disconnect, ClientShape, ClientWaits
<1>4. TurnsOK(u)'
    <2>1. HashMethod[u] = "md5" /\ key'[u] # None /\ Alone(u)' => status'[u] # "hash"
        BY <1>1, <1>2 DEF TurnsOK, vars, server, Alone, DirU
    <2>2. CASE Over(u)'
        BY <1>1, <1>2, <2>1, <2>2, TurnsOver
    <2>3. CASE ~ Over(u)'
        <3>1. main'[u] \notin Ended /\ linked'[u]
            BY <2>3 DEF Over
        <3>2. ~ Disconnect(u)
            BY <1>1, <3>1 DEF Disconnect, ClientShape
        <3>3. net' = net /\ linked' = linked
            BY <3>2 DEF CheckSent, PutError, CloseErrors, MainStep, AwaitSender, AwaitReceiver, CheckErr
        <3>4. pc'[u] = pc[u] /\ status'[u] = status[u] /\ handled' = handled /\ data' = data
              /\ Alone(u)' = Alone(u) /\ Open(u)' = Open(u)
            BY <1>2 DEF vars, files, server, Alone, DirU, Open
        <3>5. ~ Over(u)
            <4>1. main[u] \notin Ended
                BY <3>1, <3>2 DEF CheckSent, PutError, CloseErrors, MainStep, AwaitSender,
                                  AwaitReceiver, CheckErr, Ended
            <4> QED BY <2>3, <3>3, <3>4, <4>1 DEF Over
        <3>6. PICK turn \in Turns(u) : InTurn(u, turn) /\ WrittenInTurn(u, turn[1])
            BY <1>1, <3>5 DEF TurnsOK
        <3>7. \A k, f : FileAt(u, k, f) => FileAt(u, k, f)'
            BY <1>2, <3>3 DEF FileAt, NameAt, InFile
        <3>8. turn \in Turns(u)' /\ InTurn(u, turn)'
            BY <1>2, <3>3, <3>6, <3>7 DEF Turns, InTurn
        <3>9. WrittenInTurn(u, turn[1])'
            BY <3>3, <3>4, <3>6, <3>7, StillWritten
        <3>10. Midway(u)'
            BY <1>1, <1>2 DEF TurnsOK, Midway, NameAt, InFile, ReadableFiles
        <3> QED BY <2>1, <3>8, <3>9, <3>10 DEF TurnsOK
    <2> QED BY <2>2, <2>3
<1> QED BY <1>1, <1>2, <1>3, <1>4, ClientStepOthers

(* A step of the handler. *)
LEMMA TurnsAfterServerStep ==
    ASSUME HashInv, NEW u \in Uploads, ServerStep(u)
    PROVE  \A o \in Uploads : TurnsOK(o)'
<1>1. /\ UploadInv /\ FilesInv /\ ClientShape /\ \A o \in Uploads : ClientOK(o) /\ TurnsOK(o)
    BY DEF HashInv, UploadInv
<1>2. FilesInv'
    BY <1>1, ServerStepSafe DEF UploadInv
<1>3. \A o \in Uploads : ClientWaits(o)
    BY DEF ServerStep, Receive, client, ClientWaits
<1>4. ASSUME KeepsToItself(u), NEW o \in Uploads, o # u, net'[o] = net[o]
      PROVE  TurnsOK(o)'
    <2>1. Untouched(o)
        BY <1>1, <1>4, OthersUntouched DEF KeepsToItself
    <2> QED BY <1>1, <1>3, <1>4, <2>1, TurnsSame
<1>5. CASE Receive(u)
    <2>1. PICK m : m = Head(net[u])
        OBVIOUS
    <2>2. net[u] # <<>> /\ WellFormed(m)
        <3>1. net[u] \in Seq(ClientMessages(u)) /\ net[u] # <<>>
            BY <1>1, <1>5 DEF ClientOK, StreamOK, Receive
        <3>2. m \in ClientMessages(u)
            BY <2>1, <3>1
        <3> QED BY <3>1, <3>2, MessageFacts
    <2>3. \/ CreateFileWithDir(u, m) /\ net' = net
          \/ Consume(u, m) /\ net' = [net EXCEPT ![u] = Tail(net[u])]
        BY <1>5, <2>1 DEF Receive
    <2>4. KeepsToItself(u)
        BY <1>1, <2>2, <2>3, MessageKeeps
    <2>5. \A o \in Uploads \ {u} : net'[o] = net[o]
        BY <1>1, <2>3 DEF ClientShape
    <2>6. TurnsOK(u)'
        <3>1. CASE CreateFileWithDir(u, m) /\ net' = net
            BY <1>1, <1>3, <2>1, <2>2, <3>1, TurnsAfterCreateFile
        <3>2. CASE Consume(u, m) /\ net' = [net EXCEPT ![u] = Tail(net[u])]
            <4>1. net'[u] = Tail(net[u])
                BY <1>1, <3>2 DEF ClientShape
            <4> QED BY <1>1, <1>2, <1>3, <2>1, <2>2, <3>2, <4>1, TurnsAfterMessage
        <3> QED BY <2>3, <3>1, <3>2
    <2> QED BY <1>4, <2>4, <2>5, <2>6
<1>6. CASE (Proceed(u) \/ (RecvFails(u) /\ ~ linked[u])) /\ net' = net
    <2>1. KeepsToItself(u)
        BY <1>1, <1>6, ProceedKeeps
    <2>2. TurnsOK(u)'
        BY <1>1, <1>2, <1>3, <1>6, TurnsAfterProceed
    <2> QED BY <1>4, <1>6, <2>1, <2>2
<1> QED BY <1>5, <1>6 DEF ServerStep

-----------------------------------------------------------------------------
(* The theorem *)

(* At the start nothing is on its way and nothing is open. *)
LEMMA HashInitSafe ==
    ASSUME UploadInit
    PROVE  HashInv
<1>1. ASSUME NEW u \in Uploads
      PROVE  TurnsOK(u)
    <2>1. /\ at[u] = At(0, 1, 1) /\ at[u].chunk = 1 /\ net[u] = <<>> /\ Len(net[u]) = 0
          /\ key[u] = None /\ Open(u) = {}
        BY DEF UploadInit, Init, At, Open
    <2>2. PICK turn : turn = [k \in 1..1 |-> 1]
        OBVIOUS
    <2>3. turn[1] = 1 /\ turn \in [1..1 -> Nat \ {0}]
        BY <2>2
    <2>4. turn \in Turns(u) /\ InTurn(u, turn)
        BY <2>1, <2>3 DEF Turns, InTurn
    <2>5. WrittenInTurn(u, turn[1])
        BY <2>1, <2>3 DEF WrittenInTurn
    <2> QED BY <2>1, <2>4, <2>5 DEF TurnsOK, Midway
<1> QED BY <1>1, UploadInitSafe DEF HashInv

(* The parts of a file arrive in turn, and the file the handler has open   *)
(* is what was sent of it.                                                 *)
THEOREM HashInvariance == UploadSpec => []HashInv
<1>1. UploadInit => HashInv
    BY HashInitSafe
<1>2. HashInv /\ UploadInv' /\ [UploadNext]_allVars => HashInv'
    <2> SUFFICES ASSUME HashInv, UploadInv', [UploadNext]_allVars
                 PROVE  \A o \in Uploads : TurnsOK(o)'
        BY DEF HashInv
    <2>1. ASSUME NEW u \in Uploads,
                 SenderStep(u) \/ MainStep(u) \/ ServerStep(u) \/ Disconnect(u)
          PROVE  \A o \in Uploads : TurnsOK(o)'
        BY <2>1, TurnsAfterEnds, TurnsAfterUploadFile, TurnsAfterWaiting,
           TurnsAfterServerStep DEF SenderStep
    <2>2. CASE UNCHANGED allVars
        <3>1. UNCHANGED vars /\ \A o \in Uploads : ClientWaits(o) /\ net'[o] = net[o]
            BY <2>2 DEF allVars, client, ClientWaits
        <3>2. UploadInv /\ \A o \in Uploads : TurnsOK(o)
            BY DEF HashInv
        <3> QED BY <3>1, <3>2, ClientStepOthers
    <2> QED BY <2>1, <2>2 DEF UploadNext
<1> QED BY <1>1, <1>2, UploadInvariance, PTL DEF UploadSpec

(* Clients that use md5, the method their hash messages always name, are   *)
(* never refused for a wrong hash while they have their directory to       *)
(* themselves: for any number of files and chunks, however the connection  *)
(* and the other uploads behave.  With sha256 or sha512 this is false, as  *)
(* the run upload_hash shows.                                              *)
THEOREM Md5HashesAccepted ==
    ASSUME \A u \in Uploads : HashMethod[u] = "md5"
    PROVE  UploadSpec => []HashAccepted
<1>1. HashInv => HashAccepted
    BY DEF HashInv, TurnsOK, HashAccepted
<1> QED BY <1>1, HashInvariance, PTL

=============================================================================
