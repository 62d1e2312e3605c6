------------------------------- MODULE Upload -------------------------------
(***************************************************************************)
(* An upload end to end: the client command (client/cmd/schema_upload.go)  *)
(* and the server's handler (UploadServer), joined by a gRPC stream.  The  *)
(* client runs three goroutines: the sender walks the files named on the   *)
(* command line and sends them, the receiver waits for the server's        *)
(* answer, and the command itself waits for the sender, then for the       *)
(* receiver.  The sender reports errors on a channel with room for one.    *)
(* The sender and the command also share the variable err: either may      *)
(* overwrite what the other has assigned and not yet looked at.            *)
(***************************************************************************)
EXTENDS UploadServer

CONSTANTS
    KeyOf,       \* KeyOf[u]: the schema upload u is for
    Args,        \* Args[u]: the --file and --dir arguments, in order
    Local,       \* Local[u][n]: the content of a client's file, or Unreadable
    Unreadable,
    HashMethod,  \* HashMethod[u]: the --hash flag
    Window,      \* bound: messages sent and not yet received
    Disconnects  \* the uploads whose connection may break

(* The path a name leads to on the server. *)
Target(u, n) == Join[DirOf[KeyOf[u]]][n]

(* An argument stands for the *.yang files found under it, one that is not *)
(* there for a file that cannot be read.  Names that lead to one path are  *)
(* names of one file.                                                      *)
ASSUME ClientAssumption ==
    /\ KeyOf \in [Uploads -> Keys]
    /\ \A u \in Uploads :
          /\ Args[u] \in Seq([ft : FileTypes, files : Seq(Names)])
          /\ \A n, o \in Names : Target(u, n) = Target(u, o) => Local[u][n] = Local[u][o]
          /\ \A n \in Names : /\ Local[u][n] = Unreadable \/ Local[u][n] \in Seq(Chunks)
                              /\ Target(u, n) \in Yang
    /\ HashMethod \in [Uploads -> Methods]
    /\ None \notin [method : {"md5"}, sum : Methods \X Seq(Chunks)]
    /\ Window \in Nat \ {0} /\ Disconnects \subseteq Uploads

VARIABLES
    at,       \* per client: the sender's position (argument, file, chunk)
    sender,   \* "send", "check" (err), "put" (it, on the channel) or "closed"
    err,      \* err # nil, in the variable the two goroutines share
    errCh,    \* senderErrCh: how many errors are in it (capacity 1)
    main,     \* the command: "wait" (sender), "rcv", "check" and "return"
              \* (err), and its outcome
    logged,   \* the command has logged an error of the sender
    net,      \* the stream: messages on their way
    linked,   \* the connection stands
    broken    \* a send on the stream has failed

client == <<at, sender, err, errCh, main, logged, linked, broken>>
allVars == <<vars, client, net>>

Ended == {"ok", "failed"}

(* The stream is over: answered by the server, broken, or the command gone. *)
Over(u) == status[u] # None \/ ~ linked[u] \/ main[u] \in Ended

Sending(u) == sender[u] = "send" /\ main[u] \notin Ended

-----------------------------------------------------------------------------
(* The sender *)

NArgs(u) == Len(Args[u])
At(a, i, j) == [arg |-> a, file |-> i, chunk |-> j]

(* calcHash *)
CalcHash(method, c) == Digest(method, c)

(* Mutant: the hash is computed over the last chunk only. *)
HashMessage_LastChunk(u, n, ft) ==
    LET c == Local[u][n]
        last == IF c = <<>> THEN c ELSE <<c[Len(c)]>>
    IN [kind |-> "file", name |-> n, ft |-> ft, contents |-> None,
        hash |-> [method |-> "md5", sum |-> CalcHash(HashMethod[u], last)]]

(* The message that ends a file.  It says MD5 whatever the method. *)
HashMessage(u, n, ft) ==
    [kind |-> "file", name |-> n, ft |-> ft, contents |-> None,
     hash |-> [method |-> "md5", sum |-> CalcHash(HashMethod[u], Local[u][n])]]

ChunkMessage(u, n, ft, j) ==
    [kind |-> "file", name |-> n, ft |-> ft, contents |-> Local[u][n][j], hash |-> None]

(* The sender sends m, or fails to.  A stream that is over may have taken  *)
(* the message before, but takes no more once a send has failed.           *)
Send(u, m, sent) ==
    /\ \/ /\ ~ Over(u) /\ sent
          /\ Len(net[u]) < Window
          /\ net' = [net EXCEPT ![u] = Append(@, m)]
       \/ Over(u) /\ (sent => ~ broken[u]) /\ UNCHANGED net
    /\ broken' = [broken EXCEPT ![u] = ~ sent]

MoveTo(u, p) == at' = [at EXCEPT ![u] = p]

(* err = ..., to be checked next. *)
AssignErr(u, e) ==
    /\ err' = [err EXCEPT ![u] = e]
    /\ sender' = [sender EXCEPT ![u] = "check"]

SendCreate(u) ==
    /\ Sending(u) /\ at[u].arg = 0
    /\ \E sent \in BOOLEAN :
          Send(u, [kind |-> "create", key |-> KeyOf[u]], sent) /\ AssignErr(u, ~ sent)
    /\ MoveTo(u, At(1, 1, 1))
    /\ UNCHANGED <<vars, errCh, main, logged, linked>>

(* filepath.Walk returns: an error ends the walk of an argument, not the   *)
(* upload.                                                                 *)
EndWalk(u, e) == MoveTo(u, At(at[u].arg + 1, 1, 1)) /\ AssignErr(u, e)

(* uploadFileFn, called by filepath.Walk for every file of an argument. *)
UploadFile(u) ==
    /\ Sending(u) /\ at[u].arg \in 1..NArgs(u)
    /\ LET a == at[u].arg
           i == at[u].file
           j == at[u].chunk
           walk == Args[u][a].files
           ft == Args[u][a].ft
           n == walk[i]
           SendThen(m, p) ==
               \E sent \in BOOLEAN :
                   /\ Send(u, m, sent)
                   /\ IF sent THEN MoveTo(u, p) /\ UNCHANGED <<err, sender>>
                      ELSE EndWalk(u, TRUE)
       IN \/ i > Len(walk) /\ EndWalk(u, FALSE) /\ UNCHANGED <<net, broken>>
          \/ /\ i <= Len(walk) /\ Local[u][n] = Unreadable
             /\ EndWalk(u, TRUE) /\ UNCHANGED <<net, broken>>
          \/ /\ i <= Len(walk) /\ Local[u][n] # Unreadable /\ j <= Len(Local[u][n])
             /\ SendThen(ChunkMessage(u, n, ft, j), At(a, i, j + 1))
          \/ /\ i <= Len(walk) /\ Local[u][n] # Unreadable /\ j > Len(Local[u][n])
             /\ SendThen(HashMessage(u, n, ft), At(a, i + 1, 1))
    /\ UNCHANGED <<vars, errCh, main, logged, linked>>

SendFinalize(u) ==
    /\ Sending(u) /\ at[u].arg = NArgs(u) + 1
    /\ \E sent \in BOOLEAN : Send(u, [kind |-> "final"], sent) /\ AssignErr(u, ~ sent)
    /\ MoveTo(u, At(NArgs(u) + 2, 1, 1))
    /\ UNCHANGED <<vars, errCh, main, logged, linked>>

(* if err != nil: by now err may hold what the command received. *)
CheckSent(u) ==
    /\ sender[u] = "check" /\ main[u] \notin Ended
    /\ sender' = [sender EXCEPT ![u] = IF err[u] THEN "put" ELSE "send"]
    /\ UNCHANGED <<vars, at, err, errCh, main, logged, net, linked, broken>>

(* senderErrCh <- err, which blocks while the channel is full. *)
PutError(u) ==
    /\ sender[u] = "put" /\ main[u] \notin Ended
    /\ errCh[u] = 0
    /\ errCh' = [errCh EXCEPT ![u] = 1]
    /\ sender' = [sender EXCEPT ![u] = "send"]
    /\ UNCHANGED <<vars, at, err, main, logged, net, linked, broken>>

CloseErrors(u) ==
    /\ Sending(u) /\ at[u].arg = NArgs(u) + 2
    /\ sender' = [sender EXCEPT ![u] = "closed"]
    /\ UNCHANGED <<vars, at, err, errCh, main, logged, net, linked, broken>>

-----------------------------------------------------------------------------
(* The command *)

(* Mutant: the command waits until the channel is closed. *)
AwaitSender_Closed(u) ==
    /\ main[u] = "wait" /\ sender[u] = "closed"
    /\ main' = [main EXCEPT ![u] = "rcv"]
    /\ UNCHANGED <<vars, at, sender, err, errCh, logged, net, linked, broken>>

(* The first error, or the end of the sender: an error is only logged. *)
AwaitSender(u) ==
    /\ main[u] = "wait"
    /\ errCh[u] = 1 \/ sender[u] = "closed"
    /\ logged' = [logged EXCEPT ![u] = errCh[u] = 1]
    /\ errCh' = [errCh EXCEPT ![u] = 0]
    /\ main' = [main EXCEPT ![u] = "rcv"]
    /\ UNCHANGED <<vars, at, sender, err, net, linked, broken>>

(* Mutant: whatever the receiver got counts as success. *)
AwaitReceiver_Any(u) ==
    /\ main[u] = "rcv"
    /\ status[u] # None \/ ~ linked[u]
    /\ err' = [err EXCEPT ![u] = FALSE]
    /\ main' = [main EXCEPT ![u] = "check"]
    /\ UNCHANGED <<vars, at, sender, errCh, logged, net, linked, broken>>

(* err = the receiver's result: the server's answer, or an error of the    *)
(* stream.                                                                 *)
AwaitReceiver(u) ==
    /\ main[u] = "rcv"
    /\ status[u] # None \/ ~ linked[u]
    /\ err' = [err EXCEPT ![u] = ~ (linked[u] /\ status[u] = "ok")]
    /\ main' = [main EXCEPT ![u] = "check"]
    /\ UNCHANGED <<vars, at, sender, errCh, logged, net, linked, broken>>

(* if err != nil { return err }: err is read twice, while a sender that    *)
(* goes on after an error may assign it again.                             *)
CheckErr(u) ==
    /\ \/ main[u] = "check" /\ main' = [main EXCEPT ![u] = IF err[u] THEN "return" ELSE "ok"]
       \/ main[u] = "return" /\ main' = [main EXCEPT ![u] = IF err[u] THEN "failed" ELSE "ok"]
    /\ UNCHANGED <<vars, at, sender, err, errCh, logged, net, linked, broken>>

Disconnect(u) ==
    /\ u \in Disconnects /\ linked[u] /\ main[u] \notin Ended
    /\ linked' = [linked EXCEPT ![u] = FALSE]
    /\ net' = [net EXCEPT ![u] = <<>>]
    /\ UNCHANGED <<vars, at, sender, err, errCh, main, logged, broken>>

-----------------------------------------------------------------------------
(* The server at its end of the stream *)

Receive(u) ==
    /\ net[u] # <<>>
    /\ \/ CreateFileWithDir(u, Head(net[u])) /\ UNCHANGED net
       \/ Consume(u, Head(net[u])) /\ net' = [net EXCEPT ![u] = Tail(@)]
    /\ UNCHANGED client

ServerStep(u) ==
    \/ Receive(u)
    \/ ~ linked[u] /\ RecvFails(u) /\ UNCHANGED <<client, net>>
    \/ Proceed(u) /\ UNCHANGED <<client, net>>

SenderStep(u) ==
    \/ SendCreate(u) \/ UploadFile(u) \/ SendFinalize(u)
    \/ CheckSent(u) \/ PutError(u) \/ CloseErrors(u)

MainStep(u) == AwaitSender(u) \/ AwaitReceiver(u) \/ CheckErr(u)

UploadInit ==
    /\ Init
    /\ at = [u \in Uploads |-> At(0, 1, 1)]
    /\ sender = [u \in Uploads |-> "send"]
    /\ err = [u \in Uploads |-> FALSE]
    /\ errCh = [u \in Uploads |-> 0]
    /\ main = [u \in Uploads |-> "wait"]
    /\ logged = [u \in Uploads |-> FALSE]
    /\ net = [u \in Uploads |-> <<>>]
    /\ linked = [u \in Uploads |-> TRUE]
    /\ broken = [u \in Uploads |-> FALSE]

UploadNext ==
    \E u \in Uploads : SenderStep(u) \/ MainStep(u) \/ ServerStep(u) \/ Disconnect(u)

(* Goroutines that can run do run. *)
UploadSpec ==
    /\ UploadInit /\ [][UploadNext]_allVars
    /\ \A u \in Uploads : /\ WF_allVars(SenderStep(u))
                          /\ WF_allVars(MainStep(u))
                          /\ WF_allVars(ServerStep(u))

-----------------------------------------------------------------------------
(* Properties *)

(* The arguments of u whose walk meets a file that cannot be read. *)
BadArgs(u) ==
    {a \in DOMAIN Args[u] : \E i \in DOMAIN Args[u][a].files :
        Local[u][Args[u][a].files[i]] = Unreadable}

(* The files u can be expected to upload: those of an argument up to the   *)
(* first that cannot be read.                                              *)
Sendable(u) ==
    UNION {{Args[u][a].files[i] : i \in {n \in DOMAIN Args[u][a].files :
        \A l \in 1..n : Local[u][Args[u][a].files[l]] # Unreadable}} : a \in DOMAIN Args[u]}

(* A command that reports success, and has logged no error of its sender,  *)
(* was answered ok and could read all its files.  (One that has logged an  *)
(* error may report success although the server refused the upload: err is *)
(* overwritten.)  An upload that is answered ok and did not share its      *)
(* directory has stored the files the client could read, each as it is at  *)
(* the client.                                                             *)
AckedIsUploaded ==
    \A u \in Uploads :
        /\ main[u] = "ok" /\ ~ logged[u] => status[u] = "ok" /\ BadArgs(u) = {}
        /\ status[u] = "ok" /\ Alone(u) /\ scFiles[u] # {} =>
              /\ DOMAIN rev[u] = {Target(u, n) : n \in Sendable(u)}
              /\ \A n \in Sendable(u) : rev[u][Target(u, n)] = Local[u][n]

(* The hash flag offers md5, sha256 and sha512: an upload that has its     *)
(* directory to itself is never refused for a wrong hash.                  *)
HashAccepted ==
    \A u \in Uploads : key[u] # None /\ Alone(u) => status[u] # "hash"

(* The command waits for a response or an error, and gets one.             *)
UploadEnds == \A u \in Uploads : <>(main[u] \in Ended)

(* ... which is true when at most two arguments cannot be read: the first  *)
(* error is taken by the command, the second has room in the channel.      *)
UploadEndsWithFewErrors ==
    \A u \in Uploads : Cardinality(BadArgs(u)) <= 2 => <>(main[u] \in Ended)

=============================================================================
