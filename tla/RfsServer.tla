----------------------------- MODULE RfsServer -----------------------------
(***************************************************************************)
(* The server process: the accept loop of server.c and one detached        *)
(* thread per accepted connection, running handle_client and the handlers  *)
(* of serverHandler.c.                                                     *)
(*                                                                         *)
(* The loop receives each request into one stack buffer, and hands the     *)
(* thread POINTERS into it (strtok).  The thread goes on reading its       *)
(* command, permission and path through them while the loop clears and     *)
(* refills the buffer for the next client.                                 *)
(*                                                                         *)
(* One action is one access to something another process or thread can     *)
(* touch: the buffer, the disk, or a socket.                               *)
(***************************************************************************)
EXTENDS Connection, Disk

VARIABLES
  mpc,      \* where the accept loop is
  why,      \* why the process ended: "stop" or "signal"; "alive" before
  cur,      \* client_sockfd of the loop
  buf,      \* the loop's buffer: whose line it holds, and whether it is split
  pc,       \* where the handler thread of each connection is
  op,       \* the command that the handler's strcmp chain matched
  perm,     \* permission, once read
  path,     \* the heap copy of the path the handler works on
  mfd, fd,  \* what the descriptors mfd and fd are open on: an inode, Empty
            \* (a directory) or None
  out       \* text the handler is about to send

mainVars   == <<mpc, why, cur, buf>>
handlerVars == <<pc, op, perm, path, mfd, fd, out>>
serverVars == <<mainVars, handlerVars>>

HandlerPCs == {"none", "start", "close", "done", "killed", "reply",
  "w_perm", "w_ack", "w_check", "w_drain", "w_openmeta", "w_writemeta",
  "w_path", "w_openfile", "w_store",
  "g_path", "g_open", "g_read", "g_send", "g_ack",
  "r_path", "r_check", "r_recheck", "r_openmeta", "r_unlinkmeta",
  "r_path2", "r_openfile", "r_unlinkfile",
  "l_path", "l_open", "l_read", "l_send"}

ServerTypeOK ==
  /\ mpc \in {"accept", "recv", "parse", "exit", "dead"}
  /\ why \in {"alive", "stop", "signal"}
  /\ cur \in Clients \cup {None}
  /\ buf \in [of : Clients \cup {None}, split : BOOLEAN]
  /\ pc \in [Clients -> HandlerPCs]
  /\ op \in [Clients -> Handled \cup {None}]
  /\ perm \in [Clients -> {-1, 0, 1}]
  /\ path \in [Clients -> Paths \cup {Empty, None}]
  /\ mfd \in [Clients -> Inodes \cup {None}]
  /\ fd \in [Clients -> Inodes \cup {None, Empty}]
  /\ out \in [Clients -> Text]

Cleared == [of |-> None, split |-> FALSE]     \* memset(buffer, '\0', ...)

ServerInit ==
  /\ mpc = "accept" /\ why = "alive" /\ cur = None
  /\ buf = Cleared
  /\ pc = [c \in Clients |-> "none"]
  /\ op = [c \in Clients |-> None]
  /\ perm = [c \in Clients |-> -1]
  /\ path = [c \in Clients |-> None]
  /\ mfd = [c \in Clients |-> None]
  /\ fd = [c \in Clients |-> None]
  /\ out = [c \in Clients |-> <<>>]

\* A handler has been started and has not returned.
Working(c) == pc[c] \notin {"none", "done", "killed"}

Goto(c, label) == pc' = [pc EXCEPT ![c] = label]

(***************************************************************************)
(* The process ends: every thread with it, and the kernel closes what it   *)
(* had open.  What is on the disk stays as it is.                          *)
(***************************************************************************)
ServerDies(reason) ==
  /\ mpc' = "dead" /\ why' = reason
  /\ pc' = [c \in Clients |-> IF Working(c) THEN "killed" ELSE pc[c]]
  /\ mfd' = [c \in Clients |-> None]
  /\ fd' = [c \in Clients |-> None]
  /\ SrvCloseAll
  /\ UNCHANGED <<cur, buf, op, perm, path, out, disk>>

(***************************************************************************)
(* The accept loop.                                                        *)
(***************************************************************************)
Accept(c) ==
  /\ mpc = "accept"
  /\ SrvAccept(c)
  /\ cur' = c
  /\ buf' = Cleared
  /\ mpc' = "recv"
  /\ UNCHANGED <<why, handlerVars, disk>>

RecvCommand ==
  /\ mpc = "recv"
  /\ SrvRecv(cur)
  /\ buf' = [of |-> cur, split |-> FALSE]
  /\ mpc' = "parse"
  /\ UNCHANGED <<why, cur, handlerVars, disk>>

\* The peer is gone: the buffer stays empty, strtok returns NULL, and
\* strcmp(NULL, "STOP") is a segmentation fault.
RecvNothing ==
  /\ mpc = "recv"
  /\ SrvEof(cur) \/ SrvRecvError(cur)
  /\ ServerDies("signal")

ParseStop ==
  /\ mpc = "parse" /\ req[cur].cmd = "STOP"
  /\ SrvClose(cur)
  /\ mpc' = "exit"
  /\ UNCHANGED <<why, cur, buf, handlerVars, disk>>

ParseSkip ==
  /\ mpc = "parse" /\ req[cur].cmd = "SKIP"
  /\ SrvClose(cur)
  /\ mpc' = "accept"
  /\ UNCHANGED <<why, cur, buf, handlerVars, disk>>

\* strtok cuts the line into tokens; pthread_create, pthread_detach.
ParseSpawn ==
  /\ mpc = "parse" /\ req[cur].cmd \in Handled
  /\ buf' = [buf EXCEPT !.split = TRUE]
  /\ Goto(cur, "start")
  /\ mpc' = "accept"
  /\ UNCHANGED <<why, cur, op, perm, path, mfd, fd, out, conn, disk>>

\* main returns while detached threads may still be running.
Exit == mpc = "exit" /\ ServerDies("stop")

(***************************************************************************)
(* What a handler finds at the pointers it was given.                      *)
(***************************************************************************)
\* The offset of the path in a request line.
PathOffset(cmd) == CASE cmd = "WRITE"       -> 6
                     [] cmd = "GET"         -> 4
                     [] cmd \in {"RM", "LS"} -> 3
                     [] OTHER               -> 0

Intact(c) == buf = [of |-> c, split |-> TRUE]

\* A handler compares the command word several times over: when the buffer
\* is no longer its own, the comparisons may straddle a change and all fail.
CommandsRead(c) ==
  IF Intact(c) THEN {req[c].cmd}
  ELSE {None} \cup (IF buf.split THEN {req[buf.of].cmd} ELSE {})

\* The same offset in another line is the path of that line, or the empty or
\* cut-off text that happens to be there.
PathsRead(c) ==
  IF buf.of = None THEN {Empty}
  ELSE IF PathOffset(req[buf.of].cmd) # PathOffset(req[c].cmd) THEN {Empty, Garbled}
  ELSE IF buf.split \/ req[c].cmd # "WRITE" THEN {req[buf.of].path}
  ELSE {Garbled}

\* Slip: permission is not set before the NULL pointer is found.
PermissionReadUnset(c) ==
  IF req[c].cmd # "WRITE" THEN 32767
  ELSE IF buf.of # None /\ req[buf.of].cmd = "WRITE" THEN req[buf.of].perm
  ELSE 0

\* atoi(permission_str): 0 where no number stands; -1 for a NULL pointer.
PermissionRead(c) ==
  IF req[c].cmd # "WRITE" THEN -1
  ELSE IF buf.of # None /\ req[buf.of].cmd = "WRITE" THEN req[buf.of].perm
  ELSE 0

ReadPath(c) == \E p \in PathsRead(c) : path' = [path EXCEPT ![c] = p]

(***************************************************************************)
(* handle_client, and the ends that the handlers share.                    *)
(***************************************************************************)
Start(c) ==
  /\ pc[c] = "start"
  /\ \E cmd \in CommandsRead(c) :
       /\ op' = [op EXCEPT ![c] = IF cmd \in Handled THEN cmd ELSE None]
       /\ Goto(c, CASE cmd = "WRITE" -> "w_perm"
                    [] cmd = "GET"   -> "g_path"
                    [] cmd = "RM"    -> "r_path"
                    [] cmd = "LS"    -> "l_path"
                    [] OTHER         -> "close")
  /\ UNCHANGED <<perm, path, mfd, fd, out, mainVars, conn, disk>>

\* The last send of a handler; on failure it returns -1, which changes nothing.
Reply(c) ==
  /\ pc[c] = "reply"
  /\ SrvSend(c, out[c]) \/ SrvSendError(c)
  /\ Goto(c, "close")
  /\ UNCHANGED <<op, perm, path, mfd, fd, out, mainVars, disk>>

\* SIGPIPE is not handled anywhere, and kills the process.
Sigpipe(c) ==
  /\ pc[c] \in {"reply", "w_ack", "g_send", "l_send"}
  /\ SrvSendSignal(c)
  /\ ServerDies("signal")

\* Slip: the thread ends without close(client_sockfd).
CloseForgotten(c) ==
  /\ pc[c] = "close"
  /\ Goto(c, "done")
  /\ UNCHANGED <<op, perm, path, mfd, fd, out, mainVars, conn, disk>>

Close(c) ==
  /\ pc[c] = "close"
  /\ SrvClose(c)
  /\ Goto(c, "done")
  /\ UNCHANGED <<op, perm, path, mfd, fd, out, mainVars, disk>>

Answer(c, note) == out' = [out EXCEPT ![c] = Note(note)] /\ Goto(c, "reply")

(***************************************************************************)
(* handle_write.                                                           *)
(***************************************************************************)
WritePermission(c) ==
  /\ pc[c] = "w_perm"
  /\ perm' = [perm EXCEPT ![c] = PermissionRead(c)]
  /\ Goto(c, "w_ack")
  /\ UNCHANGED <<op, path, mfd, fd, out, mainVars, conn, disk>>

\* The acknowledgement, then the path for the meta file.
WriteAck(c) ==
  /\ pc[c] = "w_ack"
  /\ \/ SrvSend(c, Note("received")) /\ ReadPath(c) /\ Goto(c, "w_check")
     \/ SrvSendError(c) /\ UNCHANGED path /\ Goto(c, "close")
  /\ UNCHANGED <<op, perm, mfd, fd, out, mainVars, disk>>

WriteCheck(c) ==
  /\ pc[c] = "w_check"
  /\ Goto(c, IF PermissionOf(path[c]) = 0 THEN "w_drain" ELSE "w_openmeta")
  /\ UNCHANGED <<op, perm, path, mfd, fd, out, mainVars, conn, disk>>

\* Read only: the file is received for nothing, and refused.
WriteDrain(c) ==
  /\ pc[c] = "w_drain"
  /\ \/ SrvRecv(c) /\ Answer(c, "denied")
     \/ SrvEof(c) /\ Answer(c, "denied") /\ UNCHANGED conn
     \/ SrvRecvError(c) /\ Goto(c, "close") /\ UNCHANGED <<out, conn>>
  /\ UNCHANGED <<op, perm, path, mfd, fd, mainVars, disk>>

\* open truncates the header before any lock is asked for.
WriteOpenMeta(c) ==
  /\ pc[c] = "w_openmeta"
  /\ IF path[c] = Empty
       THEN Goto(c, "close") /\ UNCHANGED <<mfd, disk>>
       ELSE /\ OpenTrunc("meta", path[c], <<c, "meta">>)
            /\ mfd' = [mfd EXCEPT ![c] = Opened("meta", path[c], <<c, "meta">>)]
            /\ Goto(c, "w_writemeta")
  /\ UNCHANGED <<op, perm, path, fd, out, mainVars, conn>>

WriteMeta(c) ==
  /\ pc[c] = "w_writemeta"
  /\ WriteStart(mfd[c], HeaderToString(perm[c]))
  /\ mfd' = [mfd EXCEPT ![c] = None]
  /\ Goto(c, "w_path")
  /\ UNCHANGED <<op, perm, path, fd, out, mainVars, conn>>

WritePath(c) ==
  /\ pc[c] = "w_path"
  /\ ReadPath(c)
  /\ Goto(c, "w_openfile")
  /\ UNCHANGED <<op, perm, mfd, fd, out, mainVars, conn, disk>>

\* Slip: the file is opened without O_TRUNC.
WriteOpenFileKeeping(c) ==
  /\ pc[c] = "w_openfile" /\ path[c] # Empty
  /\ link' = [link EXCEPT !["file"][path[c]] = Opened("file", path[c], <<c, "file">>)]
  /\ fd' = [fd EXCEPT ![c] = Opened("file", path[c], <<c, "file">>)]
  /\ Goto(c, "w_store")
  /\ UNCHANGED <<op, perm, path, mfd, out, mainVars, conn, data>>

\* Slip: the file path is built with META_DIR again.
WriteOpenFileInMeta(c) ==
  /\ pc[c] = "w_openfile" /\ path[c] # Empty
  /\ OpenTrunc("meta", path[c], <<c, "meta">>)
  /\ fd' = [fd EXCEPT ![c] = Opened("meta", path[c], <<c, "meta">>)]
  /\ Goto(c, "w_store")
  /\ UNCHANGED <<op, perm, path, mfd, out, mainVars, conn>>

WriteOpenFile(c) ==
  /\ pc[c] = "w_openfile"
  /\ IF path[c] = Empty
       THEN Goto(c, "close") /\ UNCHANGED <<fd, disk>>
       ELSE /\ OpenTrunc("file", path[c], <<c, "file">>)
            /\ fd' = [fd EXCEPT ![c] = Opened("file", path[c], <<c, "file">>)]
            /\ Goto(c, "w_store")
  /\ UNCHANGED <<op, perm, path, mfd, out, mainVars, conn>>

\* Slip: the error path of recv returns without close(fd).
WriteStoreLeaking(c) ==
  /\ pc[c] = "w_store"
  /\ SrvRecvError(c) /\ Goto(c, "close")
  /\ UNCHANGED <<op, perm, path, mfd, fd, out, mainVars, conn, disk>>

\* Receive the contents, encipher, write, unlock, close.  A peer that has
\* closed its end without sending any counts as an empty file.
WriteStore(c) ==
  /\ pc[c] = "w_store"
  /\ \/ /\ SrvRecv(c)
        /\ WriteStart(fd[c], PbEncode(Head(up[c])))
        /\ Answer(c, "written")
     \/ SrvEof(c) /\ Answer(c, "written") /\ UNCHANGED <<conn, disk>>
     \/ SrvRecvError(c) /\ Goto(c, "close") /\ UNCHANGED <<out, conn, disk>>
  /\ fd' = [fd EXCEPT ![c] = None]
  /\ UNCHANGED <<op, perm, path, mfd, mainVars>>

Write(c) ==
  \/ WritePermission(c) \/ WriteAck(c) \/ WriteCheck(c) \/ WriteDrain(c)
  \/ WriteOpenMeta(c) \/ WriteMeta(c)
  \/ WritePath(c) \/ WriteOpenFile(c) \/ WriteStore(c)

(***************************************************************************)
(* handle_get.                                                             *)
(***************************************************************************)
GetPath(c) ==
  /\ pc[c] = "g_path"
  /\ ReadPath(c)
  /\ Goto(c, "g_open")
  /\ UNCHANGED <<op, perm, mfd, fd, out, mainVars, conn, disk>>

GetOpen(c) ==
  /\ pc[c] = "g_open"
  /\ IF CanRead("file", path[c])
       THEN fd' = [fd EXCEPT ![c] = Target("file", path[c])] /\ Goto(c, "g_read")
       ELSE UNCHANGED fd /\ Goto(c, "close")
  /\ UNCHANGED <<op, perm, path, mfd, out, mainVars, conn, disk>>

\* An empty file (or a directory) is an error, and leaves its descriptor open.
GetRead(c) ==
  /\ pc[c] = "g_read"
  /\ IF Contents(fd[c]) # <<>>
       THEN /\ out' = [out EXCEPT ![c] = PbDecode(Contents(fd[c]))]
            /\ Goto(c, "g_send")
       ELSE UNCHANGED out /\ Goto(c, "close")
  /\ UNCHANGED <<op, perm, path, mfd, fd, mainVars, conn, disk>>

GetSend(c) ==
  /\ pc[c] = "g_send"
  /\ \/ SrvSend(c, out[c]) /\ Goto(c, "g_ack")
     \/ SrvSendError(c) /\ Goto(c, "close")
  /\ fd' = [fd EXCEPT ![c] = None]
  /\ UNCHANGED <<op, perm, path, mfd, out, mainVars, disk>>

\* Slip: the success message is sent without waiting for the client.
GetAckSkipped(c) ==
  /\ pc[c] = "g_ack" /\ Answer(c, "got")
  /\ UNCHANGED <<op, perm, path, mfd, fd, mainVars, conn, disk>>

\* Slip: recv is repeated until an acknowledgement comes.
GetAckInsisting(c) ==
  /\ pc[c] = "g_ack" /\ SrvRecv(c) /\ Answer(c, "got")
  /\ UNCHANGED <<op, perm, path, mfd, fd, mainVars, disk>>

\* The acknowledgement of the client, or its absence, is not looked at.
GetAck(c) ==
  /\ pc[c] = "g_ack"
  /\ \/ SrvRecv(c) /\ Answer(c, "got")
     \/ SrvEof(c) /\ Answer(c, "got") /\ UNCHANGED conn
     \/ SrvRecvError(c) /\ Goto(c, "close") /\ UNCHANGED <<out, conn>>
  /\ UNCHANGED <<op, perm, path, mfd, fd, mainVars, disk>>

Get(c) == GetPath(c) \/ GetOpen(c) \/ GetRead(c) \/ GetSend(c) \/ GetAck(c)

(***************************************************************************)
(* handle_rm.                                                              *)
(***************************************************************************)
RmPath(c) ==
  /\ pc[c] = "r_path"
  /\ ReadPath(c)
  /\ Goto(c, "r_check")
  /\ UNCHANGED <<op, perm, mfd, fd, out, mainVars, conn, disk>>

\* Slip: the check for a read-only file is missing.
RmCheckMissing(c) ==
  /\ pc[c] = "r_check" /\ Goto(c, "r_recheck")
  /\ UNCHANGED <<op, perm, path, mfd, fd, out, mainVars, conn, disk>>

\* The header is read twice: once to see whether it is 0 ...
RmCheck(c) ==
  /\ pc[c] = "r_check"
  /\ IF PermissionOf(path[c]) = 0
       THEN Answer(c, "locked")
       ELSE Goto(c, "r_recheck") /\ UNCHANGED out
  /\ UNCHANGED <<op, perm, path, mfd, fd, mainVars, conn, disk>>

\* ... and, if it was not, once more to see whether it is -1.
RmRecheck(c) ==
  /\ pc[c] = "r_recheck"
  /\ IF PermissionOf(path[c]) = -1
       THEN Answer(c, "absent")
       ELSE Goto(c, "r_openmeta") /\ UNCHANGED out
  /\ UNCHANGED <<op, perm, path, mfd, fd, mainVars, conn, disk>>

RmOpenMeta(c) ==
  /\ pc[c] = "r_openmeta"
  /\ OpenTrunc("meta", path[c], <<c, "meta">>)
  /\ mfd' = [mfd EXCEPT ![c] = Opened("meta", path[c], <<c, "meta">>)]
  /\ Goto(c, "r_unlinkmeta")
  /\ UNCHANGED <<op, perm, path, fd, out, mainVars, conn>>

\* The descriptor is closed when unlink fails, and never when it succeeds.
RmUnlinkMeta(c) ==
  /\ pc[c] = "r_unlinkmeta"
  /\ IF Exists("meta", path[c])
       THEN Unlink("meta", path[c]) /\ Goto(c, "r_path2") /\ UNCHANGED mfd
       ELSE mfd' = [mfd EXCEPT ![c] = None] /\ Goto(c, "close") /\ UNCHANGED disk
  /\ UNCHANGED <<op, perm, path, fd, out, mainVars, conn>>

RmPath2(c) ==
  /\ pc[c] = "r_path2"
  /\ ReadPath(c)
  /\ Goto(c, "r_openfile")
  /\ UNCHANGED <<op, perm, mfd, fd, out, mainVars, conn, disk>>

RmOpenFile(c) ==
  /\ pc[c] = "r_openfile"
  /\ IF path[c] = Empty
       THEN Goto(c, "close") /\ UNCHANGED <<fd, disk>>
       ELSE /\ OpenTrunc("file", path[c], <<c, "file">>)
            /\ fd' = [fd EXCEPT ![c] = Opened("file", path[c], <<c, "file">>)]
            /\ Goto(c, "r_unlinkfile")
  /\ UNCHANGED <<op, perm, path, mfd, out, mainVars, conn>>

\* Slip: the data file is emptied, but not unlinked.
RmUnlinkFileForgotten(c) ==
  /\ pc[c] = "r_unlinkfile"
  /\ Answer(c, "removed")
  /\ UNCHANGED <<op, perm, path, mfd, fd, mainVars, conn, disk>>

RmUnlinkFile(c) ==
  /\ pc[c] = "r_unlinkfile"
  /\ IF Exists("file", path[c])
       THEN Unlink("file", path[c]) /\ Answer(c, "removed") /\ UNCHANGED fd
       ELSE /\ fd' = [fd EXCEPT ![c] = None]
            /\ Goto(c, "close") /\ UNCHANGED <<out, disk>>
  /\ UNCHANGED <<op, perm, path, mfd, mainVars, conn>>

Rm(c) ==
  \/ RmPath(c) \/ RmCheck(c) \/ RmRecheck(c) \/ RmOpenMeta(c) \/ RmUnlinkMeta(c)
  \/ RmPath2(c) \/ RmOpenFile(c) \/ RmUnlinkFile(c)

(***************************************************************************)
(* handle_ls.                                                              *)
(***************************************************************************)
LsPath(c) ==
  /\ pc[c] = "l_path"
  /\ ReadPath(c)
  /\ Goto(c, "l_open")
  /\ UNCHANGED <<op, perm, mfd, fd, out, mainVars, conn, disk>>

LsOpen(c) ==
  /\ pc[c] = "l_open"
  /\ IF CanRead("meta", path[c])
       THEN /\ fd' = [fd EXCEPT ![c] = Target("meta", path[c])]
            /\ Goto(c, "l_read") /\ UNCHANGED out
       ELSE Answer(c, "nofile") /\ UNCHANGED fd
  /\ UNCHANGED <<op, perm, path, mfd, mainVars, conn, disk>>

\* The header goes out as it is; an empty one is an error.
LsRead(c) ==
  /\ pc[c] = "l_read"
  /\ IF Contents(fd[c]) # <<>>
       THEN /\ out' = [out EXCEPT ![c] = HeaderText(Contents(fd[c]))]
            /\ Goto(c, "l_send")
       ELSE UNCHANGED out /\ Goto(c, "close")
  /\ UNCHANGED <<op, perm, path, mfd, fd, mainVars, conn, disk>>

\* The descriptor is closed when send fails, and never when it succeeds.
LsSend(c) ==
  /\ pc[c] = "l_send"
  /\ \/ SrvSend(c, out[c]) /\ UNCHANGED fd
     \/ SrvSendError(c) /\ fd' = [fd EXCEPT ![c] = None]
  /\ Goto(c, "close")
  /\ UNCHANGED <<op, perm, path, mfd, out, mainVars, disk>>

Ls(c) == LsPath(c) \/ LsOpen(c) \/ LsRead(c) \/ LsSend(c)

(***************************************************************************)
(* The server.                                                             *)
(***************************************************************************)
MainStep ==
  \/ \E c \in Clients : Accept(c)
  \/ RecvCommand \/ RecvNothing
  \/ ParseStop \/ ParseSkip \/ ParseSpawn
  \/ Exit

HandlerStep(c) ==
  \/ Start(c) \/ Reply(c) \/ Sigpipe(c) \/ Close(c)
  \/ Write(c) \/ Get(c) \/ Rm(c) \/ Ls(c)

ServerNext == MainStep \/ \E c \in Clients : HandlerStep(c)

=============================================================================
