---------------------------- MODULE RemoteFiles ----------------------------
(***************************************************************************)
(* What the remote file system promises to its users, whatever the         *)
(* sockets, threads, buffers, ciphers and files that make it up: every     *)
(* request takes effect in one step, between its start and its end, and    *)
(* its user sees the reply of that step.  Text comes back in upper case.   *)
(*                                                                         *)
(* A header is "none", "blank" (its file is there, and empty), "readonly"  *)
(* (0) or "writable" (1).                                                  *)
(***************************************************************************)
EXTENDS RfsCommon

CONSTANTS Plan, Source

VARIABLES
  header,   \* header[n]: the header kept for name n
  content,  \* content[n]: the text kept for name n, in upper case, or None
  asked,    \* asked[c]: the request of user c
  phase,    \* "idle", "asked", "served", "done"
  reply,    \* what the server has answered to c
  seen,     \* what user c got to see: the file of a GET, or the last message
  exit,     \* exit[c]: "running", "ok" or "fail"
  stopped   \* somebody stopped the server

vars == <<header, content, asked, phase, reply, seen, exit, stopped>>

Upper(t) == [i \in DOMAIN t |-> [t[i] EXCEPT !.case = "upper"]]

Init ==
  /\ header \in [Names -> {"none", "blank", "readonly", "writable"}]
  /\ content \in [Names -> Text \cup {None}]
  /\ asked = [c \in Clients |-> None]
  /\ phase = [c \in Clients |-> "idle"]
  /\ reply = [c \in Clients |-> <<>>]
  /\ seen = [c \in Clients |-> <<>>]
  /\ exit = [c \in Clients |-> "running"]
  /\ stopped = FALSE

Ask(c) ==
  /\ phase[c] = "idle"
  /\ \E r \in Plan[c] : asked' = [asked EXCEPT ![c] = r]
  /\ phase' = [phase EXCEPT ![c] = "asked"]
  /\ UNCHANGED <<header, content, reply, seen, exit, stopped>>

Asked(c, cmd) == phase[c] = "asked" /\ asked[c].cmd = cmd

\* The one step in which a request for name n is served.
Serve(c, text, h, t, n) ==
  /\ reply' = [reply EXCEPT ![c] = text]
  /\ header' = [header EXCEPT ![n] = h]
  /\ content' = [content EXCEPT ![n] = t]
  /\ phase' = [phase EXCEPT ![c] = "served"]
  /\ UNCHANGED <<asked, seen, exit, stopped>>

Write(c) == LET n == asked[c].path IN
  /\ Asked(c, "WRITE")
  /\ IF header[n] = "readonly"
       THEN Serve(c, Note("denied"), header[n], content[n], n)
       ELSE Serve(c, Note("written"),
                  IF asked[c].perm = 0 THEN "readonly" ELSE "writable",
                  Upper(Source[c]), n)

\* No reply, but an end of connection, when there is nothing to send.
Get(c) == LET n == asked[c].path IN
  /\ Asked(c, "GET")
  /\ Serve(c, IF content[n] = None THEN <<>> ELSE content[n], header[n], content[n], n)

Rm(c) == LET n == asked[c].path IN
  /\ Asked(c, "RM")
  /\ CASE header[n] = "readonly" -> Serve(c, Note("locked"), header[n], content[n], n)
       [] header[n] = "writable" -> Serve(c, Note("removed"), "none", None, n)
       [] OTHER                  -> Serve(c, Note("absent"), header[n], content[n], n)

Ls(c) == LET n == asked[c].path IN
  /\ Asked(c, "LS")
  /\ Serve(c, CASE header[n] = "none"     -> Note("nofile")
                [] header[n] = "blank"    -> <<>>
                [] header[n] = "readonly" -> HeaderText(<<"0">>)
                [] OTHER                  -> HeaderText(<<"1">>),
           header[n], content[n], n)

Stop(c) ==
  /\ asked[c] # None /\ asked[c].cmd = "STOP"
  /\ stopped' = TRUE
  /\ UNCHANGED <<header, content, asked, phase, reply, seen, exit>>

\* A user sees the reply, which RM and LS may print with anything behind it.
\* Once served, only a GET that fetched nothing fails: a refusal is a success.
Finish(c) ==
  /\ \/ /\ phase[c] = "served"
        /\ exit' = [exit EXCEPT ![c] =
             IF asked[c].cmd = "GET" /\ reply[c] = <<>> THEN "fail" ELSE "ok"]
     \/ /\ \/ phase[c] = "asked" /\ asked[c].cmd \in {"STOP", "SKIP"}
           \/ phase[c] \in {"idle", "asked"} /\ stopped
        /\ \E s \in {"ok", "fail"} : exit' = [exit EXCEPT ![c] = s]
  /\ phase' = [phase EXCEPT ![c] = "done"]
  /\ \/ seen' = [seen EXCEPT ![c] = reply[c]]
     \/ /\ asked[c] # None /\ asked[c].cmd \in {"RM", "LS"}
        /\ seen' = [seen EXCEPT ![c] = reply[c] \o Note("stale")]
  /\ UNCHANGED <<header, content, asked, reply, stopped>>

Next == \E c \in Clients :
  Ask(c) \/ Write(c) \/ Get(c) \/ Rm(c) \/ Ls(c) \/ Stop(c) \/ Finish(c)

Spec == Init /\ [][Next]_vars

=============================================================================
