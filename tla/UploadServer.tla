---------------------------- MODULE UploadServer ----------------------------
(***************************************************************************)
(* The server's side of a schema upload (pkg/server/rpcs.go): a stream of  *)
(* messages names a schema, sends its files in chunks, a hash for every    *)
(* file, and a final message; then the files are parsed and the schema is  *)
(* stored.  Nothing locks a schema or its directory during an upload: each *)
(* stream has its handler, and the handlers share the file system.         *)
(*                                                                         *)
(* A file is an inode: removing a directory unlinks the files in it, while *)
(* handlers go on writing to those they have open, and creating a file     *)
(* that exists truncates it under those who have it open.  A content is a  *)
(* sequence of chunks, a digest is the method with the content digested.   *)
(***************************************************************************)
EXTENDS Naturals, Sequences, FiniteSets

CONSTANTS
    Keys,        \* schema keys (name, vendor, version)
    ValidKeys,   \* those with a vendor and a version
    Dirs,        \* directories under the schemas directory, and others
    DirOf,       \* DirOf[k]: name_vendor_version, not always different
    Names,       \* file names as clients send them
    NoName,      \* the empty file name
    Files,       \* paths of files
    Join,        \* Join[d][n]: the path a name leads to from a directory
    In,          \* In[f]: the directory a path lies in, whoever opened it
    Yang,        \* paths that end in .yang
    Chunks,      \* what a message may carry of a file
    Hole,        \* what a write beyond the end leaves before it
    Inodes,      \* bound: files the file system can hold, linked or open
    Uploads,     \* upload streams
    Messages,    \* what clients may send
    MaxChunks,   \* bound: length of a file, in chunks
    Faults,      \* what may fail: "files", "store"
    None

Contents == UNION {[1..n -> Chunks \union {Hole}] : n \in 0..MaxChunks}

Methods == {"md5", "sha256", "sha512"}
Digest(method, c) == <<method, c>>

FileTypes == {"MODULE", "DEPENDENCY"}

(* A file message carries contents, a hash, both or neither. *)
IsMessage(m) ==
    \/ m.kind = "create" /\ m.key \in Keys
    \/ /\ m.kind = "file"
       /\ m.name \in Names \union {NoName} /\ m.ft \in FileTypes
       /\ m.contents \in Chunks \union {None}
       /\ \/ m.hash = None
          \/ /\ m.hash.method \in Methods \union {"unspecified", "unknown"}
             /\ \E a \in Methods, c \in Contents : m.hash.sum = Digest(a, c)
    \/ m.kind = "final"

(* What a stream is answered: an error, of which only "hash" is told apart. *)
Statuses == {"ok", "hash", "error"}

ASSUME UploadAssumption ==
    /\ ValidKeys \subseteq Keys
    /\ DirOf \in [Keys -> Dirs]
    /\ NoName \notin Names
    /\ Join \in [Dirs -> [Names -> Files]]
    /\ In \in [Files -> Dirs]
    /\ Yang \subseteq Files
    /\ None \notin Chunks /\ None \notin Inodes /\ None \notin Keys
    /\ None \notin Uploads /\ None \notin Statuses
    /\ None \notin [ino : Inodes, pos : Nat]
    /\ MaxChunks \in Nat
    /\ Faults \subseteq {"files", "store"}
    /\ \A m \in Messages : IsMessage(m)

VARIABLES
    link,      \* link[f]: the inode a path is linked to, or None
    data,      \* data[i]: the content of an inode
    stored,    \* the schema store: the files a schema was made of, or None
    pc,        \* per upload: where its handler is
    key,       \* per upload: the schema it is for
    handled,   \* handledFiles: open paths, with inode and write position
    scFiles,   \* scConfig.Files and scConfig.Directories
    scDirs,
    rev,       \* per upload: what NewSchema read
    status,    \* per upload: what the stream was answered
    verified,  \* history: the content whose digest the client last sent
    user,      \* history: the upload that last took over a directory
    shared     \* history: directories it did not have to itself since

server == <<pc, key, handled, scFiles, scDirs, rev, status, verified, user, shared>>
files == <<link, data>>
vars == <<files, stored, server>>

-----------------------------------------------------------------------------
(* The file system *)

DirU(u) == DirOf[key[u]]

Open(u) == {f \in Files : handled[u][f] # None}

InUse == {link[f] : f \in Files}
             \union UNION {{handled[u][f].ino : f \in Open(u)} : u \in Uploads}

(* os.RemoveAll *)
RemoveAll(d) == link' = [f \in Files |-> IF In[f] = d THEN None ELSE link[f]]

(* A write at position n. *)
WriteAt(s, n, c) ==
    [i \in 1..(IF n < Len(s) THEN Len(s) ELSE n + 1) |->
        IF i = n + 1 THEN c ELSE IF i <= Len(s) THEN s[i] ELSE Hole]

-----------------------------------------------------------------------------
(* Steps common to the handlers *)

Working == {"clean", "recv", "parse", "add"}

(* The handlers O end with an error.  Their variables are gone, and files  *)
(* they still have open are written no more.                               *)
End(O, s) ==
    /\ pc' = [o \in Uploads |-> IF o \in O THEN "done" ELSE pc[o]]
    /\ status' = [o \in Uploads |-> IF o \in O THEN s ELSE status[o]]
    /\ handled' = [o \in Uploads |-> IF o \in O THEN [f \in Files |-> None] ELSE handled[o]]
    /\ scFiles' = [o \in Uploads |-> IF o \in O THEN {} ELSE scFiles[o]]
    /\ scDirs' = [o \in Uploads |-> IF o \in O THEN {} ELSE scDirs[o]]
    /\ rev' = [o \in Uploads |-> IF o \in O THEN None ELSE rev[o]]
    /\ verified' = [o \in Uploads |-> IF o \in O THEN [f \in Files |-> None] ELSE verified[o]]
    /\ UNCHANGED <<key, user, shared>>

Return(u, s) == End({u}, s)

(* ... having cleaned the directory, if it can be cleaned. *)
CleanAndReturn(u, s) ==
    /\ RemoveAll(DirU(u)) \/ ("files" \in Faults /\ UNCHANGED link)
    /\ Return(u, s)

Goto(u, l) == pc' = [pc EXCEPT ![u] = l]

-----------------------------------------------------------------------------
(* The first message *)

(* Handler o is at work in d: its own directory, or one it has strayed     *)
(* into and still has a file open in.                                      *)
WorksIn(o, d) == pc[o] \in Working /\ (DirU(o) = d \/ \E f \in Open(o) : In[f] = d)

(* Handler u takes over the directory of k. *)
TakeOver(u, k) ==
    /\ user' = [user EXCEPT ![DirOf[k]] = u]
    /\ shared' = IF \E o \in Uploads \ {u} : WorksIn(o, DirOf[k])
                 THEN shared \union {DirOf[k]} ELSE shared \ {DirOf[k]}

(* Mutant: the directory is emptied before the schema is looked up. *)
CreateSchema_CleansFirst(u, m) ==
    /\ pc[u] = "first" /\ m.kind = "create" /\ m.key \in ValidKeys
    /\ RemoveAll(DirOf[m.key])
    /\ IF stored[m.key] # None
       THEN Return(u, "error")
       ELSE /\ key' = [key EXCEPT ![u] = m.key]
            /\ TakeOver(u, m.key)
            /\ Goto(u, "clean")
            /\ UNCHANGED <<handled, scFiles, scDirs, rev, status, verified>>
    /\ UNCHANGED <<data, stored>>

CreateSchema(u, m) ==
    /\ pc[u] = "first" /\ m.kind = "create"
    /\ \/ m.key \notin ValidKeys /\ Return(u, "error")
       \/ m.key \in ValidKeys /\ stored[m.key] # None /\ Return(u, "error")
       \/ /\ m.key \in ValidKeys /\ stored[m.key] = None
          /\ key' = [key EXCEPT ![u] = m.key]
          /\ TakeOver(u, m.key)
          /\ Goto(u, "clean")
          /\ UNCHANGED <<handled, scFiles, scDirs, rev, status, verified>>
    /\ UNCHANGED <<files, stored>>

NotCreateSchema(u, m) ==
    /\ pc[u] = "first" /\ m.kind # "create"
    /\ Return(u, "error")
    /\ UNCHANGED <<files, stored>>

CleanDirectory(u) ==
    /\ pc[u] = "clean"
    /\ \/ /\ RemoveAll(DirU(u))
          /\ Goto(u, "recv")
          /\ UNCHANGED <<key, handled, scFiles, scDirs, rev, status, verified, user, shared>>
       \/ "files" \in Faults /\ Return(u, "error") /\ UNCHANGED link
    /\ UNCHANGED <<data, stored>>

-----------------------------------------------------------------------------
(* A file message *)

IsFileOf(u, m) == pc[u] = "recv" /\ m.kind = "file" /\ m.name # NoName

(* path.Join(SchemasDirectory, dirname, fileName): the name is not looked  *)
(* at, so the path may lie in another directory.                           *)
FileName(u, m) == Join[DirU(u)][m.name]

IsOpenFileOf(u, m) == IsFileOf(u, m) /\ FileName(u, m) \in Open(u)

NamelessFile(u, m) ==
    /\ pc[u] = "recv" /\ m.kind = "file" /\ m.name = NoName
    /\ Return(u, "error")
    /\ UNCHANGED <<files, stored>>

(* Mutant: the handle is kept although the file could not be created. *)
CreateFileWithDir_Unchecked(u, m) ==
    /\ IsFileOf(u, m) /\ FileName(u, m) \notin Open(u)
    /\ handled' = [handled EXCEPT ![u][FileName(u, m)] = [ino |-> None, pos |-> 0]]
    /\ UNCHANGED <<files, pc, key, scFiles, scDirs, rev, status, verified, user, shared, stored>>

(* The first message of a file, before anything is done with it, opens it: *)
(* an existing file is truncated, otherwise one is linked (with its        *)
(* directory).  A handler that opens a file elsewhere is not alone any     *)
(* more, nor is whoever has the place.                                     *)
CreateFileWithDir(u, m) ==
    /\ IsFileOf(u, m) /\ FileName(u, m) \notin Open(u)
    /\ \/ LET f == FileName(u, m)
              free == Inodes \ InUse
              i == IF link[f] # None THEN link[f] ELSE CHOOSE j \in free : TRUE
          IN /\ link[f] # None \/ free # {}
             /\ link' = [link EXCEPT ![f] = i]
             /\ data' = [data EXCEPT ![i] = <<>>]
             /\ handled' = [handled EXCEPT ![u][f] = [ino |-> i, pos |-> 0]]
             /\ shared' = IF In[f] = DirU(u) THEN shared ELSE shared \union {DirU(u), In[f]}
             /\ UNCHANGED <<pc, key, scFiles, scDirs, rev, status, verified, user>>
       \/ "files" \in Faults /\ Return(u, "error") /\ UNCHANGED files
    /\ UNCHANGED stored

(* The file's content once the message's contents are written to it. *)
Updated(u, m) ==
    LET h == handled[u][FileName(u, m)] IN
    IF m.contents = None THEN data[h.ino] ELSE WriteAt(data[h.ino], h.pos, m.contents)

Write(u, m) == data' = [data EXCEPT ![handled[u][FileName(u, m)].ino] = Updated(u, m)]

WriteChunk(u, m) ==
    /\ IsOpenFileOf(u, m) /\ m.hash = None
    /\ Write(u, m)
    /\ handled' = [handled EXCEPT ![u][FileName(u, m)].pos =
                      @ + (IF m.contents = None THEN 0 ELSE 1)]
    /\ UNCHANGED <<link, pc, key, scFiles, scDirs, rev, status, verified, user, shared, stored>>

WriteFails(u, m) ==
    /\ IsOpenFileOf(u, m) /\ m.contents # None /\ "files" \in Faults
    /\ CleanAndReturn(u, "error")
    /\ UNCHANGED <<data, stored>>

(* Mutant: the file is not rewound before it is read. *)
ReadBack_NoRewind(u, m) ==
    LET h == handled[u][FileName(u, m)]
        n == h.pos + (IF m.contents = None THEN 0 ELSE 1)
    IN SubSeq(Updated(u, m), n + 1, Len(Updated(u, m)))

(* What is read from the file to compute its hash: everything. *)
ReadBack(u, m) == Updated(u, m)

(* A hash that matches closes the file and adds it to the schema. *)
HashMatches(u, m) == Digest(m.hash.method, ReadBack(u, m)) = m.hash.sum

VerifyHash(u, m) ==
    /\ IsOpenFileOf(u, m) /\ m.hash # None /\ m.hash.method \in Methods
    /\ Write(u, m)
    /\ LET f == FileName(u, m) IN
       \/ "files" \in Faults /\ CleanAndReturn(u, "error")
       \/ ~ HashMatches(u, m) /\ CleanAndReturn(u, "hash")
       \/ /\ HashMatches(u, m)
          /\ IF m.ft = "MODULE"
             THEN scFiles' = [scFiles EXCEPT ![u] = @ \union {f}] /\ UNCHANGED scDirs
             ELSE scDirs' = [scDirs EXCEPT ![u] = @ \union {f}] /\ UNCHANGED scFiles
          /\ handled' = [handled EXCEPT ![u][f] = None]
          /\ verified' = [verified EXCEPT ![u][f] = m.hash.sum[2]]
          /\ UNCHANGED <<link, pc, key, rev, status, user, shared>>
    /\ UNCHANGED stored

UnspecifiedHash(u, m) ==
    /\ IsOpenFileOf(u, m) /\ m.hash # None /\ m.hash.method = "unspecified"
    /\ data' = [data EXCEPT ![handled[u][FileName(u, m)].ino] = <<>>]
    /\ CleanAndReturn(u, "error")
    /\ UNCHANGED stored

(* A method the switch does not know leaves no hash to compute with: the   *)
(* handler panics, and the process ends with every handler at work in it.  *)
(* The directories stay as they are; a store in memory is lost.            *)
UnknownHash(u, m) ==
    /\ IsOpenFileOf(u, m) /\ m.hash # None /\ m.hash.method = "unknown"
    /\ Write(u, m)
    /\ End({o \in Uploads : pc[o] \in Working}, "error")
    /\ stored' \in {stored, [k \in Keys |-> None]}
    /\ UNCHANGED link

-----------------------------------------------------------------------------
(* The end of the stream *)

(* Mutant: files that have no hash yet do not matter. *)
Finalize_Pending(u, m) ==
    /\ pc[u] = "recv" /\ m.kind = "final"
    /\ Goto(u, "parse")
    /\ UNCHANGED <<link, key, handled, scFiles, scDirs, rev, status, verified, user, shared>>
    /\ UNCHANGED <<data, stored>>

Finalize(u, m) ==
    /\ pc[u] = "recv" /\ m.kind = "final"
    /\ \/ Open(u) # {} /\ CleanAndReturn(u, "error")
       \/ /\ Open(u) = {}
          /\ Goto(u, "parse")
          /\ UNCHANGED <<link, key, handled, scFiles, scDirs, rev, status, verified, user, shared>>
    /\ UNCHANGED <<data, stored>>

UnexpectedMessage(u, m) ==
    /\ pc[u] = "recv" /\ m.kind = "create"
    /\ CleanAndReturn(u, "error")
    /\ UNCHANGED <<data, stored>>

(* Recv fails: the client went away.  The directory is left as it is. *)
RecvFails(u) ==
    /\ pc[u] \in {"first", "recv"}
    /\ Return(u, "error")
    /\ UNCHANGED <<files, stored>>

(* findYangFiles: files not named *.yang are left out without a word. *)
FindYangFiles(F) == F \intersect Yang

(* NewSchema reads the files again, from their paths.  The modules must be *)
(* there, and without one that is not left out nothing is read.  What it   *)
(* reads, dependencies with it, is or is not YANG.                         *)
NewSchema(u) ==
    /\ pc[u] = "parse"
    /\ LET modules == FindYangFiles(scFiles[u])
           there == \A f \in scFiles[u] : link[f] # None
           read == IF modules = {} THEN {}
                   ELSE {f \in modules \union FindYangFiles(scDirs[u]) : link[f] # None}
       IN \/ (modules # {} \/ ~ there) /\ CleanAndReturn(u, "error")
          \/ /\ there
             /\ rev' = [rev EXCEPT ![u] = [f \in read |-> data[link[f]]]]
             /\ Goto(u, "add")
             /\ UNCHANGED <<link, key, handled, scFiles, scDirs, status, verified, user, shared>>
    /\ UNCHANGED <<data, stored>>

(* AddSchema does not look whether the schema exists. *)
AddSchema(u) ==
    /\ pc[u] = "add"
    /\ \/ /\ stored' = [stored EXCEPT ![key[u]] = rev[u]]
          /\ Goto(u, "done")
          /\ status' = [status EXCEPT ![u] = "ok"]
          /\ UNCHANGED <<key, handled, scFiles, scDirs, rev, verified, user, shared>>
       \/ "store" \in Faults /\ Return(u, "error") /\ UNCHANGED stored
    /\ UNCHANGED files

(* Another request deletes a schema; its files stay. *)
DeleteSchema(k) ==
    /\ stored[k] # None
    /\ stored' = [stored EXCEPT ![k] = None]
    /\ UNCHANGED <<files, server>>

-----------------------------------------------------------------------------
Init ==
    /\ link = [f \in Files |-> None]
    /\ data = [i \in Inodes |-> <<>>]
    /\ stored = [k \in Keys |-> None]
    /\ pc = [u \in Uploads |-> "first"]
    /\ key = [u \in Uploads |-> None]
    /\ handled = [u \in Uploads |-> [f \in Files |-> None]]
    /\ scFiles = [u \in Uploads |-> {}]
    /\ scDirs = [u \in Uploads |-> {}]
    /\ rev = [u \in Uploads |-> None]
    /\ status = [u \in Uploads |-> None]
    /\ verified = [u \in Uploads |-> [f \in Files |-> None]]
    /\ user = [d \in Dirs |-> None]
    /\ shared = {}

(* The handler of u receives m.  CreateFileWithDir does not use m up. *)
Consume(u, m) ==
    \/ CreateSchema(u, m) \/ NotCreateSchema(u, m)
    \/ NamelessFile(u, m) \/ WriteChunk(u, m) \/ WriteFails(u, m)
    \/ VerifyHash(u, m) \/ UnspecifiedHash(u, m)
    \/ Finalize(u, m) \/ UnexpectedMessage(u, m)

Proceed(u) == CleanDirectory(u) \/ NewSchema(u) \/ AddSchema(u)

(* No file grows beyond the bound. *)
Fits(u, m) ==
    m.kind = "file" /\ IsOpenFileOf(u, m) /\ m.contents # None
        => handled[u][FileName(u, m)].pos < MaxChunks

Next ==
    \/ \E u \in Uploads :
          \/ \E m \in Messages :
                Fits(u, m) /\ (CreateFileWithDir(u, m) \/ Consume(u, m) \/ UnknownHash(u, m))
          \/ RecvFails(u)
          \/ Proceed(u)
    \/ \E k \in Keys : DeleteSchema(k)

(* The server under clients that send whatever they like. *)
Spec == Init /\ [][Next]_vars

-----------------------------------------------------------------------------
(* Properties *)

(* Every variable has its type: in particular a file that is handled is    *)
(* one that could be created.                                              *)
TypeOK ==
    /\ link \in [Files -> Inodes \union {None}]
    /\ data \in [Inodes -> Contents]
    /\ stored \in [Keys -> {None} \union UNION {[F -> Contents] : F \in SUBSET Files}]
    /\ pc \in [Uploads -> {"first", "done"} \union Working]
    /\ key \in [Uploads -> Keys \union {None}]
    /\ handled \in [Uploads -> [Files -> {None} \union [ino : Inodes, pos : 0..MaxChunks]]]
    /\ scFiles \in [Uploads -> SUBSET Files]
    /\ scDirs \in [Uploads -> SUBSET Files]
    /\ rev \in [Uploads -> {None} \union UNION {[F -> Contents] : F \in SUBSET Files}]
    /\ status \in [Uploads -> Statuses \union {None}]
    /\ verified \in [Uploads -> [Files -> Contents \union {None}]]
    /\ user \in [Dirs -> Uploads \union {None}]
    /\ shared \in SUBSET Dirs

(* Upload u is the last to have taken over its directory, found nobody     *)
(* else at work in it, and since then no file name led from it to another  *)
(* directory or from another upload into it.                               *)
Alone(u) == user[DirU(u)] = u /\ DirU(u) \notin shared

Accepted(u) == pc[u] = "add" \/ status[u] = "ok"

(* Whatever messages come, in whatever order, the files a schema is made   *)
(* of have the contents whose hashes the client sent, and the modules      *)
(* among them are all there but those not named *.yang: a file is hashed   *)
(* when it is complete and is not touched again before it is parsed, as    *)
(* long as uploads keep out of each other's directories.                   *)
StoredWasVerified ==
    \A u \in Uploads :
        Accepted(u) /\ Alone(u) =>
            /\ FindYangFiles(scFiles[u]) \subseteq DOMAIN rev[u]
            /\ \A f \in DOMAIN rev[u] : rev[u][f] = verified[u][f]

(* The files of an uploaded schema stay on disk, where a reload will look  *)
(* for them: an upload that is turned away, because the schema exists or   *)
(* for any other reason, does not touch them, nor does a process that ends *)
(* in the middle of other uploads.                                         *)
StoredFilesKept ==
    \A u \in Uploads :
        status[u] = "ok" /\ Alone(u) =>
            \A f \in DOMAIN rev[u] : link[f] # None /\ data[link[f]] = rev[u][f]

=============================================================================
