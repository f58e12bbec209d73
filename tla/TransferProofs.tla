--------------------------- MODULE TransferProofs ---------------------------
(***************************************************************************)
(* What a user can rely on when a file travels, for texts of any length in *)
(* any characters, buffers of any even size, and any cuts of TCP.          *)
(***************************************************************************)
EXTENDS Transfer, PolybiusProofs

(***************************************************************************)
(* Texts and their beginnings.                                             *)
(***************************************************************************)
\* s is the beginning of t, or all of it.
StartOf(s, t) ==
  /\ Len(s) <= Len(t)
  /\ \A i \in 1..Len(s) : s[i] = t[i]

\* What can be under way, in a file, or in a buffer.
Messages == {"Message ", "received", "Write ", "Success", "successfully ", "Get "}
Bytes == Chars \cup {Capitals[i] : i \in 1..26} \cup Marks \cup Messages \cup {"?"}

LEMMA SizeParts == Size \in Nat /\ Size >= 2
<1>1. \A n \in Nat \ {0} : n % 2 = 0 => n >= 2
  OBVIOUS
<1> QED  BY <1>1, TransferAssumption

LEMMA StartOfStart ==
  ASSUME NEW p \in Seq(Bytes), NEW s \in Seq(Bytes), NEW t \in Seq(Bytes),
         StartOf(p, s), StartOf(s, t)
  PROVE  StartOf(p, t)
<1>1. Len(p) \in Nat /\ Len(s) \in Nat /\ Len(t) \in Nat
  OBVIOUS
<1> QED  BY <1>1 DEF StartOf

LEMMA CutParts ==
  ASSUME NEW s \in Seq(Bytes), NEW n \in Nat
  PROVE  /\ Cut(s, n) \in Seq(Bytes) /\ StartOf(Cut(s, n), s)
         /\ Len(Cut(s, n)) = Least(n, Len(s))
         /\ Len(s) <= n => Cut(s, n) = s
<1> DEFINE m == Least(n, Len(s))
<1>1. m \in Nat /\ m <= Len(s) /\ Len(s) \in Nat /\ (Len(s) <= n => m = Len(s))
  BY DEF Least
<1> HIDE DEF m
<1>2. \A i \in 1..m : s[i] \in Bytes
  BY <1>1
<1>3. /\ SubSeq(s, 1, m) \in Seq(Bytes)
      /\ Len(SubSeq(s, 1, m)) = IF 1 <= m THEN m - 1 + 1 ELSE 0
      /\ \A i \in 1..(m - 1 + 1) : SubSeq(s, 1, m)[i] = s[1 + i - 1]
  BY <1>1, <1>2, SubSeqProperties
<1>4. Len(SubSeq(s, 1, m)) = m /\ \A i \in 1..m : SubSeq(s, 1, m)[i] = s[i]
  <2>1. (IF 1 <= m THEN m - 1 + 1 ELSE 0) = m /\ m - 1 + 1 = m  BY <1>1
  <2>2. \A i \in 1..m : 1 + i - 1 = i  BY <1>1
  <2> QED  BY <1>3, <2>1, <2>2
<1>5. m = Len(s) => SubSeq(s, 1, m) = s  BY <1>3, <1>4, SeqEqual
<1>6. Cut(s, n) = SubSeq(s, 1, m)  BY DEF Cut, m
<1>7. StartOf(SubSeq(s, 1, m), s)  BY <1>1, <1>4 DEF StartOf
<1> QED  BY <1>1, <1>3, <1>4, <1>5, <1>6, <1>7 DEF m

\* What a recv takes is the beginning of what is under way ...
LEMMA TakesParts ==
  ASSUME NEW q \in Seq(Bytes), NEW taken \in Takes(q)
  PROVE  /\ taken \in Seq(Bytes) /\ StartOf(taken, q)
         /\ After(q, taken) \in Seq(Bytes)
<1>1. PICK n \in Nat : taken = Cut(q, n)
  BY SizeParts DEF Takes, Least
<1>2. taken \in Seq(Bytes) /\ StartOf(taken, q)  BY <1>1, CutParts
<1>3. \A i \in (Len(taken) + 1)..Len(q) : q[i] \in Bytes
  BY <1>2
<1>4. SubSeq(q, Len(taken) + 1, Len(q)) \in Seq(Bytes)
  BY <1>2, <1>3, SubSeqProperties
<1> QED  BY <1>2, <1>4 DEF After

\* ... and all of it, when TCP does not cut and the buffer can hold it.
LEMMA TakesAll ==
  ASSUME NEW q \in Seq(Bytes), NEW taken \in Takes(q), ~parts, Len(q) <= Size
  PROVE  taken = q /\ After(q, taken) = <<>>
<1> DEFINE m == Least(Size, Len(q))
<1>1. m \in Nat /\ m = Len(q)  BY SizeParts DEF Least
<1>2. taken = Cut(q, m)  BY DEF Takes
<1>3. taken = q  BY <1>1, <1>2, CutParts
<1>4. SubSeq(q, Len(q) + 1, Len(q)) = <<>>
  <2>1. Len(q) \in Int /\ Len(q) + 1 \in Int /\ Len(q) < Len(q) + 1
    OBVIOUS
  <2> QED  BY <2>1, SubSeqEmpty
<1> QED  BY <1>3, <1>4 DEF After

LEMMA OverlayOfNothing ==
  ASSUME NEW s \in Seq(Bytes)
  PROVE  Overlay(<<>>, s) = s
<1>1. SubSeq(<<>>, Len(s) + 1, 0) = <<>>
  <2>1. Len(s) + 1 \in Int /\ 0 \in Int /\ 0 < Len(s) + 1
    OBVIOUS
  <2> QED  BY <2>1, SubSeqEmpty
<1>2. Len(<<>>) = 0 /\ s \o <<>> = s
  OBVIOUS
<1> QED  BY <1>1, <1>2 DEF Overlay

\* strlen goes on only in a buffer that is full.
LEMMA StringParts ==
  ASSUME NEW bytes \in Seq(Bytes), NEW message \in AsString(bytes)
  PROVE  message \in Seq(Bytes) /\ (Len(bytes) < Size => message = bytes)
<1>1. "?" \in Bytes  BY DEF Bytes
<1>2. Append(bytes, "?") \in Seq(Bytes)  BY <1>1, AppendProperties
<1> QED  BY <1>2 DEF AsString

LEMMA MessageParts ==
  /\ Received \in Seq(Bytes) /\ Len(Received) = 2
  /\ Written \in Seq(Bytes) /\ Len(Written) = 2
  /\ Fetched \in Seq(Bytes) /\ Len(Fetched) = 2
  /\ Got \in Seq(Bytes) /\ Len(Got) = 2
<1>1. Messages \subseteq Bytes  BY DEF Bytes
<1>2. /\ "Message " \in Bytes /\ "received" \in Bytes /\ "Write " \in Bytes
      /\ "Success" \in Bytes /\ "successfully " \in Bytes /\ "Get " \in Bytes
  BY <1>1 DEF Messages
<1>3. \A x, y \in Bytes : <<x, y>> \in Seq(Bytes) /\ Len(<<x, y>>) = 2
  OBVIOUS
<1> QED  BY <1>2, <1>3, Zenon DEF Received, Written, Fetched, Got

LEMMA NothingMore ==
  ASSUME NEW s \in Seq(Bytes)
  PROVE  <<>> \o s = s /\ (s # <<>> <=> Len(s) # 0)
OBVIOUS

(***************************************************************************)
(* Texts and their ciphers.                                                *)
(***************************************************************************)
LEMMA UpperIsByte == \A ch \in Bytes : ToUpper(ch) \in Bytes
<1> TAKE ch \in Bytes
<1>1. CASE \E i \in 1..26 : Smalls[i] = ch
  <2> DEFINE j == CHOOSE i \in 1..26 : Smalls[i] = ch
  <2>1. j \in 1..26 /\ ToUpper(ch) = Capitals[j]  BY <1>1 DEF ToUpper
  <2> QED  BY <2>1 DEF Bytes
<1>2. CASE ~ \E i \in 1..26 : Smalls[i] = ch  BY <1>2 DEF ToUpper
<1> QED  BY <1>1, <1>2

LEMMA UpperParts ==
  ASSUME NEW t \in Seq(Bytes)
  PROVE  /\ Upper(t) \in Seq(Bytes) /\ Len(Upper(t)) = Len(t)
         /\ \A i \in 1..Len(t) : Upper(t)[i] = ToUpper(t[i])
<1>1. \A ch \in Bytes : ToUpper(ch) \in Bytes  BY UpperIsByte
<1>2. Upper(t) = [i \in 1..Len(t) |-> ToUpper(t[i])]  BY DEF Upper
<1> QED  BY <1>1, <1>2

LEMMA StartInUpper ==
  ASSUME NEW p \in Seq(Bytes), NEW t \in Seq(Bytes), StartOf(p, t)
  PROVE  StartOf(Upper(p), Upper(t))
<1>1. \A i \in 1..Len(p) : i \in 1..Len(t)  BY DEF StartOf
<1> QED  BY <1>1, UpperParts DEF StartOf

LEMMA EncodeParts ==
  ASSUME NEW t \in Seq(Bytes)
  PROVE  /\ pbEncode(t) \in Seq(Bytes) /\ Len(pbEncode(t)) = 2 * Len(t)
         /\ Decodable(pbEncode(t)) /\ pbDecode(pbEncode(t)) = Upper(t)
<1>1. Marks \subseteq Bytes  BY DEF Bytes
<1>2. \A ch \in Bytes : ToUpper(ch) \in Bytes  BY UpperIsByte
<1>3. CipherOf(Bytes, Upper(t), pbEncode(t)) /\ Len(Upper(t)) = Len(t)
  BY <1>1, <1>2, TextIsEncoded
<1>4. pbEncode(t) \in Seq(Bytes) /\ Len(pbEncode(t)) = 2 * Len(t)
  BY <1>3 DEF CipherOf, PairsOf
<1>5. Decodable(pbEncode(t)) /\ pbDecode(pbEncode(t)) = Upper(t)
  BY <1>3, CipherIsDecoded
<1> QED  BY <1>4, <1>5

LEMMA NothingEncoded == pbEncode(<<>>) = <<>>
<1>1. <<>> \in Seq(Bytes) /\ Len(<<>>) = 0
  OBVIOUS
<1>2. pbEncode(<<>>) \in Seq(Bytes) /\ Len(pbEncode(<<>>)) = 2 * 0
  BY <1>1, EncodeParts
<1> QED  BY <1>2, EmptySeq

(***************************************************************************)
(* The inductive invariant.                                                *)
(***************************************************************************)
TypeInv ==
  /\ parts \in BOOLEAN /\ command \in {"RM", "WRITE", "GET"}
  /\ up \in Seq(Bytes) /\ down \in Seq(Bytes)
  /\ source \in Texts \cup {Absent}
  /\ stored \in Seq(Bytes) \cup {Absent}

\* The remote file is the cipher of the beginning of the source, and of all of
\* it when TCP does not cut.
StartStored ==
  \E n \in 0..Len(source) :
    /\ stored = pbEncode(Cut(source, n))
    /\ parts \/ n \in {0, Len(source)}

StoredInv ==
  /\ stored # Absent => Decodable(stored)
  /\ spc = "store" => stored = <<>>
  /\ spc = "crashed" => stored # Absent /\ Len(stored) >= Size
  /\ Short /\ spc # "ack" /\ stored # Absent => StartStored

\* While nothing moves.
RemoveInv == command = "RM" => cpc = "idle" /\ spc = "idle"

AllStored == Len(source) < Size => stored = pbEncode(source)

WriteInv == command = "WRITE" =>
  /\ source \in Texts
  /\ cpc \in {"ack", "result", "idle"} /\ spc \in {"ack", "store", "idle"}
  /\ spc = "ack" => cpc = "ack" /\ down = <<>>
  /\ cpc = "ack" => up = <<>> /\ answer = <<>> /\ spc # "idle"
  /\ spc = "store" => up = <<>> \/ up = Cut(source, Size)

WholeWriteInv == command = "WRITE" /\ ~parts =>
  /\ cpc = "ack" /\ spc = "store" => down = Received
  /\ cpc = "result" => \/ spc = "store" /\ up = Cut(source, Size) /\ down = <<>>
                       \/ spc = "idle" /\ down = Written /\ AllStored
  /\ cpc = "idle" => \/ answer = <<>> /\ status = "failed"
                     \/ spc = "idle" /\ answer = Written /\ AllStored

GetInv == command = "GET" =>
  /\ cpc \in {"fetch", "result", "idle"} /\ spc \in {"read", "confirm", "idle", "crashed"}
  /\ spc = "read" => cpc = "fetch" /\ down = <<>>
  /\ cpc = "fetch" => local = <<>> /\ up = <<>>

ShortGetInv == command = "GET" /\ Short =>
  /\ local \in Seq(Bytes) /\ StartOf(local, Upper(source))
  /\ stored = Absent => local = <<>>
  /\ cpc = "fetch" /\ down # <<>> => /\ spc = "confirm" /\ stored # Absent
                                     /\ StartOf(down, Upper(source))

WholeGetInv == command = "GET" /\ Short /\ ~parts =>
  /\ cpc = "fetch" /\ down # <<>> => down = Upper(source)
  /\ cpc = "result" => /\ local = Upper(source)
                       /\ \/ spc = "confirm" /\ down = <<>>
                          \/ spc = "idle" /\ down = Got
  /\ cpc = "idle" /\ status = "ok" => local = Upper(source) /\ answer = Got

TransferInv ==
  /\ TypeInv /\ StoredInv
  /\ RemoveInv /\ WriteInv /\ WholeWriteInv
  /\ GetInv /\ ShortGetInv /\ WholeGetInv

LEMMA WhoRuns ==
  ASSUME TransferInv
  PROVE  /\ cpc = "ack" \/ spc \in {"ack", "store"} => command = "WRITE"
         /\ cpc = "fetch" \/ spc \in {"read", "confirm", "crashed"} => command = "GET"
         /\ cpc = "result" => command \in {"WRITE", "GET"}
BY DEF TransferInv, TypeInv, RemoveInv, WriteInv, GetInv

LEMMA SourceIsText ==
  ASSUME TypeInv, source # Absent \/ source \in Texts
  PROVE  source \in Seq(Bytes)
<1>1. source \in Texts  BY DEF TypeInv
<1>2. source \in Seq(Chars)  BY <1>1, TransferAssumption
<1>3. Chars \subseteq Bytes  BY DEF Bytes
<1> QED  BY <1>2, <1>3

LEMMA InitTransfer ==
  ASSUME Init
  PROVE  TransferInv
<1>1. TypeInv  BY DEF Init, TypeInv
<1>2. StoredInv  BY DEF Init, StoredInv, Short
<1>3. RemoveInv /\ WriteInv /\ WholeWriteInv /\ GetInv /\ ShortGetInv /\ WholeGetInv
  BY DEF Init, RemoveInv, WriteInv, WholeWriteInv, GetInv, ShortGetInv, WholeGetInv
<1> QED  BY <1>1, <1>2, <1>3 DEF TransferInv

(***************************************************************************)
(* The users.                                                              *)
(***************************************************************************)
LEMMA WriteKeeps ==
  ASSUME TransferInv, NEW t \in Texts, Write(t)
  PROVE  TransferInv'
<1> USE DEF TransferInv
<1>1. TypeInv'  BY DEF TypeInv, Write, Begin
<1>2. StoredInv'  BY DEF StoredInv, Write, Begin
<1>3. RemoveInv' /\ WriteInv' /\ WholeWriteInv' /\ GetInv' /\ ShortGetInv' /\ WholeGetInv'
  BY DEF Write, Begin, RemoveInv, WriteInv, WholeWriteInv, GetInv, ShortGetInv, WholeGetInv
<1> QED  BY <1>1, <1>2, <1>3

LEMMA GetKeeps ==
  ASSUME TransferInv, Get
  PROVE  TransferInv'
<1> USE DEF TransferInv
<1>1. TypeInv'  BY DEF TypeInv, Get, Begin
<1>2. StoredInv'
  BY DEF StoredInv, Get, Begin, Over, Short, StartStored
<1>3. RemoveInv' /\ WriteInv' /\ WholeWriteInv'
  BY DEF Get, Begin, RemoveInv, WriteInv, WholeWriteInv
<1>4. GetInv' /\ WholeGetInv'  BY DEF Get, Begin, GetInv, WholeGetInv
<1>5. ShortGetInv'
  <2> SUFFICES ASSUME Short PROVE /\ local' \in Seq(Bytes)
                                  /\ StartOf(local', Upper(source))
    BY DEF Get, Begin, ShortGetInv, Short
  <2>1. Len(Upper(source)) \in Nat  BY SourceIsText, UpperParts DEF Short
  <2> QED  BY <2>1 DEF Get, StartOf
<1> QED  BY <1>1, <1>2, <1>3, <1>4, <1>5

LEMMA RemoveKeeps ==
  ASSUME TransferInv, RemoveFile
  PROVE  TransferInv'
<1> USE DEF TransferInv
<1>1. TypeInv'  BY DEF TypeInv, RemoveFile, Begin
<1>2. StoredInv'  BY DEF StoredInv, RemoveFile, Begin
<1>3. RemoveInv' /\ WriteInv' /\ WholeWriteInv' /\ GetInv' /\ ShortGetInv' /\ WholeGetInv'
  BY DEF RemoveFile, Begin, RemoveInv, WriteInv, WholeWriteInv, GetInv, ShortGetInv,
         WholeGetInv
<1> QED  BY <1>1, <1>2, <1>3

(***************************************************************************)
(* The client.                                                             *)
(***************************************************************************)
LEMMA AwaitAckKeeps ==
  ASSUME TransferInv, AwaitAck
  PROVE  TransferInv'
<1> USE DEF TransferInv
<1>1. command = "WRITE"  BY WhoRuns DEF AwaitAck
<1>2. /\ source \in Texts /\ source \in Seq(Bytes)
      /\ spc = "store" /\ up = <<>> /\ answer = <<>> /\ cpc = "ack"
  BY <1>1, SourceIsText DEF AwaitAck, WriteInv
<1>3. PICK ack \in Takes(down) : down' = After(down, ack)  BY DEF AwaitAck
<1>4. Cut(source, Size) \in Seq(Bytes)  BY <1>2, CutParts, SizeParts
<1>5. up' \in {<<>>, Cut(source, Size)}
  BY <1>2, <1>4, NothingMore DEF AwaitAck
<1>6. TypeInv'
  <2>1. <<>> \in Seq(Bytes)
    OBVIOUS
  <2>2. up' \in Seq(Bytes)  BY <1>4, <1>5, <2>1
  <2>3. down' \in Seq(Bytes)  BY <1>3, TakesParts DEF TypeInv
  <2> QED  BY <2>2, <2>3 DEF TypeInv, AwaitAck
<1>7. StoredInv'  BY DEF AwaitAck, StoredInv, Short, StartStored
<1>8. WriteInv'  BY <1>1, <1>2, <1>5 DEF AwaitAck, WriteInv, Exit
<1>9. WholeWriteInv'
  <2> SUFFICES ASSUME ~parts PROVE WholeWriteInv'
    BY DEF WholeWriteInv, AwaitAck
  <2>1. down = Received  BY <1>1, <1>2 DEF WholeWriteInv
  <2>2. down' = <<>>  BY <1>3, <2>1, TakesAll, MessageParts, SizeParts
  <2>3. CASE source = <<>>
    BY <1>1, <1>2, <2>2, <2>3 DEF AwaitAck, WholeWriteInv, Exit
  <2>4. CASE source # <<>>
    <3>1. up' = Cut(source, Size)  BY <1>2, <1>4, <2>4, NothingMore DEF AwaitAck
    <3> QED  BY <1>1, <1>2, <2>2, <2>4, <3>1 DEF AwaitAck, WholeWriteInv
  <2> QED  BY <2>3, <2>4
<1>10. RemoveInv' /\ GetInv' /\ ShortGetInv' /\ WholeGetInv'
  BY <1>1 DEF AwaitAck, RemoveInv, GetInv, ShortGetInv, WholeGetInv
<1> QED  BY <1>6, <1>7, <1>8, <1>9, <1>10

LEMMA FetchKeeps ==
  ASSUME TransferInv, Fetch
  PROVE  TransferInv'
<1> USE DEF TransferInv
<1>1. command = "GET"  BY WhoRuns DEF Fetch
<1>2. cpc = "fetch" /\ local = <<>> /\ up = <<>> /\ down # <<>> /\ spc # "read"
  BY <1>1 DEF Fetch, GetInv
<1>3. PICK text \in Takes(down) : /\ down' = After(down, text)
                                  /\ local' = Overlay(local, text)
  BY DEF Fetch
<1>4. down \in Seq(Bytes)  BY DEF TypeInv
<1>5. /\ text \in Seq(Bytes) /\ StartOf(text, down) /\ down' \in Seq(Bytes)
      /\ local' = text
  BY <1>2, <1>3, <1>4, TakesParts, OverlayOfNothing
<1>6. TypeInv'
  <2>1. up' \in Seq(Bytes)  BY <1>2, NothingMore, MessageParts DEF Fetch
  <2> QED  BY <1>5, <2>1 DEF TypeInv, Fetch
<1>7. StoredInv'  BY DEF Fetch, StoredInv, Short, StartStored
<1>8. RemoveInv' /\ WriteInv' /\ WholeWriteInv'
  BY <1>1 DEF Fetch, RemoveInv, WriteInv, WholeWriteInv
<1>9. GetInv'  BY <1>1, <1>2 DEF Fetch, GetInv
<1>10. ShortGetInv'
  <2> SUFFICES ASSUME Short PROVE ShortGetInv'
    BY DEF ShortGetInv, Fetch, Short
  <2>1. source \in Seq(Bytes)  BY SourceIsText DEF Short
  <2>2. spc = "confirm" /\ stored # Absent /\ StartOf(down, Upper(source))
    BY <1>1, <1>2 DEF ShortGetInv
  <2>3. StartOf(text, Upper(source))
    BY <1>4, <1>5, <2>1, <2>2, StartOfStart, UpperParts
  <2> QED  BY <1>5, <2>2, <2>3 DEF Fetch, ShortGetInv
<1>11. WholeGetInv'
  <2> SUFFICES ASSUME Short, ~parts PROVE WholeGetInv'
    BY DEF WholeGetInv, Fetch, Short
  <2>1. source \in Seq(Bytes)  BY SourceIsText DEF Short
  <2>2. spc = "confirm" /\ down = Upper(source)
    BY <1>1, <1>2 DEF ShortGetInv, WholeGetInv
  <2>3. Len(down) <= Size
    BY <2>1, <2>2, UpperParts, SizeParts DEF Short
  <2>4. text = down /\ down' = <<>>  BY <1>3, <1>4, <2>3, TakesAll
  <2> QED  BY <1>5, <2>2, <2>4 DEF Fetch, WholeGetInv
<1> QED  BY <1>6, <1>7, <1>8, <1>9, <1>10, <1>11

LEMMA FetchNothingKeeps ==
  ASSUME TransferInv, FetchNothing
  PROVE  TransferInv'
<1> USE DEF TransferInv
<1>1. command = "GET"  BY WhoRuns DEF FetchNothing
<1>2. cpc = "fetch" /\ local = <<>> /\ up = <<>> /\ down = <<>> /\ spc # "read"
  BY <1>1 DEF FetchNothing, GetInv, ServerGone
<1>3. TypeInv' /\ StoredInv'
  BY DEF FetchNothing, TypeInv, StoredInv, Short, StartStored
<1>4. RemoveInv' /\ WriteInv' /\ WholeWriteInv'
  BY <1>1 DEF FetchNothing, RemoveInv, WriteInv, WholeWriteInv
<1>5. GetInv' /\ ShortGetInv' /\ WholeGetInv'
  BY <1>1, <1>2 DEF FetchNothing, Exit, GetInv, ShortGetInv, WholeGetInv, Short
<1> QED  BY <1>3, <1>4, <1>5

LEMMA AwaitResultKeeps ==
  ASSUME TransferInv, AwaitResult
  PROVE  TransferInv'
<1> USE DEF TransferInv
<1>1. PICK text \in Takes(down) : down' = After(down, text) /\ answer' = text
  BY DEF AwaitResult
<1>2. down \in Seq(Bytes) /\ down # <<>> /\ cpc = "result" /\ cpc' = "idle" /\ status' = "ok"
  BY DEF TypeInv, AwaitResult, Exit
<1>3. down' \in Seq(Bytes)  BY <1>1, <1>2, TakesParts
<1>4. TypeInv'  BY <1>3 DEF TypeInv, AwaitResult
<1>5. StoredInv'  BY DEF AwaitResult, StoredInv, Short, StartStored
<1>6. RemoveInv'  BY <1>2 DEF AwaitResult, RemoveInv
<1>7. WriteInv'  BY <1>2 DEF AwaitResult, WriteInv
<1>8. WholeWriteInv'
  <2> SUFFICES ASSUME command = "WRITE", ~parts PROVE WholeWriteInv'
    BY DEF WholeWriteInv, AwaitResult
  <2>1. spc = "idle" /\ down = Written /\ AllStored  BY <1>2 DEF WholeWriteInv
  <2>2. answer' = Written  BY <1>1, <1>2, <2>1, TakesAll, MessageParts, SizeParts
  <2> QED  BY <1>2, <2>1, <2>2 DEF WholeWriteInv, AwaitResult, AllStored
<1>9. GetInv' /\ ShortGetInv'
  BY <1>2 DEF AwaitResult, GetInv, ShortGetInv, Short
<1>10. WholeGetInv'
  <2> SUFFICES ASSUME command = "GET", Short, ~parts PROVE WholeGetInv'
    BY DEF WholeGetInv, AwaitResult, Short
  <2>1. down = Got /\ local = Upper(source)  BY <1>2 DEF WholeGetInv
  <2>2. answer' = Got  BY <1>1, <1>2, <2>1, TakesAll, MessageParts, SizeParts
  <2> QED  BY <1>2, <2>1, <2>2 DEF WholeGetInv, AwaitResult
<1> QED  BY <1>4, <1>5, <1>6, <1>7, <1>8, <1>9, <1>10

(***************************************************************************)
(* The handler.                                                            *)
(***************************************************************************)
LEMMA EmptyIsStored ==
  ASSUME NEW s \in Seq(Bytes)
  PROVE  Decodable(<<>>) /\ <<>> = pbEncode(Cut(s, 0)) /\ 0 \in 0..Len(s)
<1>1. Len(<<>>) = 0 /\ Len(s) \in Nat
  OBVIOUS
<1>2. Cut(s, 0) \in Seq(Bytes) /\ Len(Cut(s, 0)) = 0
  BY <1>1, CutParts DEF Least
<1>3. Cut(s, 0) = <<>>  BY <1>2, EmptySeq
<1> QED  BY <1>1, <1>3, NothingEncoded DEF Decodable

LEMMA OpenFileKeeps ==
  ASSUME TransferInv, OpenFile
  PROVE  TransferInv'
<1> USE DEF TransferInv
<1>1. command = "WRITE"  BY WhoRuns DEF OpenFile
<1>2. /\ source \in Texts /\ source \in Seq(Bytes)
      /\ cpc = "ack" /\ up = <<>> /\ down = <<>> /\ answer = <<>>
  BY <1>1, SourceIsText DEF OpenFile, WriteInv
<1>3. stored' = <<>> /\ down' = Received /\ spc' = "store"
  BY <1>2, NothingMore, MessageParts DEF OpenFile
<1>4. TypeInv'
  <2>1. <<>> \in Seq(Bytes)
    OBVIOUS
  <2> QED  BY <1>3, <2>1, MessageParts DEF OpenFile, TypeInv
<1>5. StoredInv'
  <2>1. StartStored'  BY <1>2, <1>3, EmptyIsStored DEF StartStored, OpenFile
  <2>2. Decodable(stored')  BY <1>2, <1>3, EmptyIsStored
  <2> QED  BY <1>3, <2>1, <2>2 DEF StoredInv
<1>6. RemoveInv' /\ WriteInv' /\ WholeWriteInv' /\ GetInv' /\ ShortGetInv' /\ WholeGetInv'
  BY <1>1, <1>2, <1>3 DEF OpenFile, RemoveInv, WriteInv, WholeWriteInv, GetInv,
     ShortGetInv, WholeGetInv
<1> QED  BY <1>4, <1>5, <1>6

LEMMA StartIsCut ==
  ASSUME NEW p \in Seq(Bytes), NEW s \in Seq(Bytes), StartOf(p, s)
  PROVE  Len(p) \in 0..Len(s) /\ Cut(s, Len(p)) = p
<1>1. Len(p) \in Nat /\ Len(s) \in Nat /\ Len(p) <= Len(s)  BY DEF StartOf
<1>2. /\ Cut(s, Len(p)) \in Seq(Bytes) /\ Len(Cut(s, Len(p))) = Len(p)
      /\ StartOf(Cut(s, Len(p)), s)
  BY <1>1, CutParts DEF Least
<1>3. \A i \in 1..Len(p) : Cut(s, Len(p))[i] = p[i]  BY <1>2 DEF StartOf
<1> QED  BY <1>1, <1>2, <1>3, SeqEqual

LEMMA StoreKeeps ==
  ASSUME TransferInv, Store
  PROVE  TransferInv'
<1> USE DEF TransferInv
<1>1. command = "WRITE" /\ stored = <<>>  BY WhoRuns DEF Store, StoredInv
<1>2. /\ source \in Texts /\ source \in Seq(Bytes) /\ spc = "store" /\ spc' = "idle"
      /\ up = Cut(source, Size) /\ cpc \in {"result", "idle"}
  BY <1>1, SourceIsText DEF Store, WriteInv
<1>3. PICK bytes \in Takes(up) :
        /\ up' = After(up, bytes)
        /\ \E message \in AsString(bytes) : stored' = Overlay(stored, pbEncode(message))
  BY DEF Store
<1>4. PICK message \in AsString(bytes) : stored' = Overlay(stored, pbEncode(message))
  BY <1>3
<1>5. up \in Seq(Bytes) /\ down \in Seq(Bytes) /\ StartOf(up, source)
  BY <1>2, CutParts, SizeParts DEF TypeInv
<1>6. bytes \in Seq(Bytes) /\ StartOf(bytes, up) /\ up' \in Seq(Bytes)
  BY <1>3, <1>5, TakesParts
<1>7. message \in Seq(Bytes) /\ (Len(bytes) < Size => message = bytes)
  BY <1>6, StringParts
<1>8. /\ stored' = pbEncode(message) /\ stored' \in Seq(Bytes) /\ Decodable(stored')
  BY <1>1, <1>4, <1>7, EncodeParts, OverlayOfNothing
<1>9. StartOf(bytes, source)  BY <1>2, <1>5, <1>6, StartOfStart
<1>10. Len(source) < Size => message = bytes
  BY <1>2, <1>6, <1>7, <1>9, SizeParts DEF StartOf
<1>11. Len(source) < Size /\ ~parts => message = source
  <2> SUFFICES ASSUME Len(source) < Size, ~parts PROVE message = source
    OBVIOUS
  <2>1. Len(source) \in Nat /\ Len(source) <= Size  BY <1>2, SizeParts
  <2>2. up = source  BY <1>2, <2>1, CutParts, SizeParts
  <2> QED  BY <1>5, <1>10, <2>1, <2>2, TakesAll
<1>12. TypeInv'
  <2>1. down' \in Seq(Bytes)  BY <1>5, MessageParts, ConcatProperties DEF Store
  <2> QED  BY <1>6, <1>8, <2>1 DEF TypeInv, Store
<1>13. StoredInv'
  <2>1. ASSUME Short PROVE StartStored'
    <3>1. Len(source) \in Nat /\ Len(source) < Size  BY <1>2, <2>1, SizeParts DEF Short
    <3>2. Len(bytes) \in 0..Len(source) /\ Cut(source, Len(bytes)) = bytes
      BY <1>2, <1>6, <1>9, StartIsCut
    <3>3. stored' = pbEncode(Cut(source, Len(bytes)))  BY <1>8, <1>10, <3>1, <3>2
    <3>4. parts \/ Len(bytes) = Len(source)  BY <1>10, <1>11, <3>1
    <3>5. \E n \in 0..Len(source) : /\ stored' = pbEncode(Cut(source, n))
                                    /\ parts \/ n \in {0, Len(source)}
      BY <3>2, <3>3, <3>4
    <3> QED  BY <3>5 DEF Store, StartStored
  <2> QED  BY <1>2, <1>8, <2>1 DEF StoredInv, Store, Short
<1>14. WriteInv'  BY <1>1, <1>2 DEF Store, WriteInv
<1>15. WholeWriteInv'
  <2> SUFFICES ASSUME ~parts PROVE WholeWriteInv'
    BY DEF WholeWriteInv, Store
  <2>1. AllStored'  BY <1>8, <1>11 DEF AllStored, Store
  <2>2. cpc = "result" => down' = Written
    <3> SUFFICES ASSUME cpc = "result" PROVE down' = Written
      OBVIOUS
    <3>1. down = <<>>  BY <1>1, <1>2 DEF WholeWriteInv
    <3> QED  BY <3>1, NothingMore, MessageParts DEF Store
  <2>3. cpc = "idle" => answer = <<>> /\ status = "failed"
    BY <1>1, <1>2 DEF WholeWriteInv
  <2> QED  BY <1>1, <1>2, <2>1, <2>2, <2>3 DEF Store, WholeWriteInv
<1>16. RemoveInv' /\ GetInv' /\ ShortGetInv' /\ WholeGetInv'
  BY <1>1 DEF Store, RemoveInv, GetInv, ShortGetInv, WholeGetInv
<1> QED  BY <1>12, <1>13, <1>14, <1>15, <1>16

LEMMA StoreNothingKeeps ==
  ASSUME TransferInv, StoreNothing
  PROVE  TransferInv'
<1> USE DEF TransferInv
<1>1. command = "WRITE" /\ cpc = "idle" /\ spc = "store" /\ spc' = "idle"
  BY WhoRuns DEF StoreNothing
<1>2. TypeInv'
  <2>1. down' \in Seq(Bytes)
    BY MessageParts, ConcatProperties DEF StoreNothing, TypeInv
  <2> QED  BY <2>1 DEF TypeInv, StoreNothing
<1>3. StoredInv'  BY <1>1 DEF StoreNothing, StoredInv, Short, StartStored
<1>4. WriteInv' /\ WholeWriteInv'
  BY <1>1 DEF StoreNothing, WriteInv, WholeWriteInv
<1>5. RemoveInv' /\ GetInv' /\ ShortGetInv' /\ WholeGetInv'
  BY <1>1 DEF StoreNothing, RemoveInv, GetInv, ShortGetInv, WholeGetInv
<1> QED  BY <1>2, <1>3, <1>4, <1>5

LEMMA ReadNothingKeeps ==
  ASSUME TransferInv, ReadNothing
  PROVE  TransferInv'
<1> USE DEF TransferInv
<1>1. command = "GET" /\ spc = "read"  BY WhoRuns DEF ReadNothing
<1>2. cpc = "fetch" /\ down = <<>>  BY <1>1 DEF GetInv
<1>3. TypeInv' /\ StoredInv'
  BY <1>1 DEF ReadNothing, TypeInv, StoredInv, Short, StartStored
<1>4. RemoveInv' /\ WriteInv' /\ WholeWriteInv' /\ GetInv' /\ ShortGetInv' /\ WholeGetInv'
  BY <1>1, <1>2 DEF ReadNothing, RemoveInv, WriteInv, WholeWriteInv, GetInv, ShortGetInv,
     WholeGetInv, Short
<1> QED  BY <1>3, <1>4

\* A file that leaves room in the buffer is read whole.
LEMMA ReadWhole ==
  ASSUME NEW s \in Seq(Bytes), Len(s) < Size, NEW cipher \in AsString(Cut(s, Size))
  PROVE  cipher = s
<1>1. Cut(s, Size) = s  BY CutParts, SizeParts
<1> QED  BY <1>1, StringParts

LEMMA ReadKeeps ==
  ASSUME TransferInv, Read
  PROVE  TransferInv'
<1> USE DEF TransferInv
<1>1. command = "GET" /\ spc = "read"  BY WhoRuns DEF Read
<1>2. cpc = "fetch" /\ down = <<>> /\ local = <<>> /\ up = <<>>
  BY <1>1 DEF GetInv
<1>3. stored # Absent /\ stored # <<>> /\ stored \in Seq(Bytes) /\ Decodable(stored)
  BY DEF Read, TypeInv, StoredInv
<1>4. PICK cipher \in AsString(Cut(stored, Size)) :
        \/ /\ Decodable(cipher)
           /\ down' = down \o pbDecode(cipher) /\ spc' = "confirm"
        \/ /\ ~Decodable(cipher)
           /\ spc' = "crashed" /\ UNCHANGED down
  BY DEF Read
<1>5. cipher \in Seq(Bytes) /\ pbDecode(cipher) \in Seq(Bytes)
  <2>1. cipher \in Seq(Bytes)  BY <1>3, CutParts, SizeParts, StringParts
  <2>2. /\ \A i \in 1..26 : Capitals[i] \in Bytes
        /\ Marks \subseteq Bytes
    BY DEF Bytes
  <2> QED  BY <2>1, <2>2, DecodedIsText
<1>6. /\ spc' = "confirm" => down' = pbDecode(cipher)
      /\ spc' # "confirm" => spc' = "crashed" /\ down' = <<>>
  BY <1>2, <1>4, <1>5, NothingMore
<1>7. Len(stored) < Size => cipher = stored /\ spc' = "confirm"
  BY <1>3, <1>4, ReadWhole
<1>8. TypeInv'
  <2>1. <<>> \in Seq(Bytes)
    OBVIOUS
  <2> QED  BY <1>5, <1>6, <2>1 DEF TypeInv, Read
<1>9. StoredInv'
  <2>1. Len(stored) >= Size \/ Len(stored) < Size  BY <1>3, SizeParts
  <2> QED  BY <1>1, <1>3, <1>6, <1>7, <2>1 DEF Read, StoredInv, Short, StartStored
<1>10. RemoveInv' /\ WriteInv' /\ WholeWriteInv'
  BY <1>1 DEF Read, RemoveInv, WriteInv, WholeWriteInv
<1>11. GetInv'  BY <1>1, <1>2, <1>6 DEF Read, GetInv
<1>12. ASSUME Short
       PROVE  /\ spc' = "confirm" /\ StartOf(down', Upper(source))
              /\ ~parts => down' = Upper(source)
  <2>1. source \in Seq(Bytes) /\ Len(source) \in Nat  BY <1>12, SourceIsText DEF Short
  <2>2. PICK n \in 0..Len(source) : /\ stored = pbEncode(Cut(source, n))
                                    /\ parts \/ n \in {0, Len(source)}
    BY <1>1, <1>3, <1>12 DEF StoredInv, StartStored
  <2> DEFINE p == Cut(source, n)
  <2>3. p \in Seq(Bytes) /\ StartOf(p, source) /\ Len(p) = n
    BY <2>1, CutParts DEF Least
  <2>4. n = Len(source) => p = source  BY <2>1, CutParts
  <2> HIDE DEF p
  <2>5. stored = pbEncode(p)  BY <2>2 DEF p
  <2>6. Len(stored) = 2 * n /\ pbDecode(stored) = Upper(p)
    BY <2>3, <2>5, EncodeParts
  <2>7. Len(stored) < Size  BY <1>12, <2>1, <2>6, SizeParts DEF Short
  <2>8. spc' = "confirm" /\ down' = Upper(p)  BY <1>6, <1>7, <2>6, <2>7
  <2>9. StartOf(Upper(p), Upper(source))  BY <2>1, <2>3, StartInUpper
  <2>10. ~parts => p = source
    <3> SUFFICES ASSUME ~parts PROVE n = Len(source)
      BY <2>4
    <3>1. n # 0
      <4> SUFFICES ASSUME n = 0 PROVE FALSE
        OBVIOUS
      <4>1. Len(stored) = 0  BY <2>6
      <4> QED  BY <1>3, <4>1, EmptySeq
    <3> QED  BY <2>2, <3>1
  <2> QED  BY <2>8, <2>9, <2>10
<1>13. ShortGetInv'
  <2> SUFFICES ASSUME Short PROVE ShortGetInv'
    BY DEF ShortGetInv, Read, Short
  <2>1. local \in Seq(Bytes) /\ StartOf(local, Upper(source))
    BY <1>1 DEF ShortGetInv
  <2> QED  BY <1>2, <1>3, <1>12, <2>1 DEF Read, ShortGetInv
<1>14. WholeGetInv'
  BY <1>2, <1>12 DEF Read, WholeGetInv, Short
<1> QED  BY <1>8, <1>9, <1>10, <1>11, <1>13, <1>14

LEMMA ConfirmKeeps ==
  ASSUME TransferInv, Confirm
  PROVE  TransferInv'
<1> USE DEF TransferInv
<1>1. command = "GET" /\ spc = "confirm" /\ spc' = "idle"  BY WhoRuns DEF Confirm
<1>2. cpc \in {"result", "idle"}  BY <1>1 DEF Confirm, GetInv
<1>3. PICK ack \in Takes(up) : up' = After(up, ack)  BY DEF Confirm
<1>4. TypeInv'
  <2>1. up' \in Seq(Bytes)  BY <1>3, TakesParts DEF TypeInv
  <2>2. down' \in Seq(Bytes)
    BY MessageParts, ConcatProperties DEF Confirm, TypeInv
  <2> QED  BY <2>1, <2>2 DEF TypeInv, Confirm
<1>5. StoredInv'  BY <1>1 DEF Confirm, StoredInv, Short, StartStored
<1>6. RemoveInv' /\ WriteInv' /\ WholeWriteInv'
  BY <1>1 DEF Confirm, RemoveInv, WriteInv, WholeWriteInv
<1>7. GetInv' /\ ShortGetInv'
  BY <1>1, <1>2 DEF Confirm, GetInv, ShortGetInv, Short
<1>8. WholeGetInv'
  <2> SUFFICES ASSUME Short, ~parts PROVE WholeGetInv'
    BY DEF WholeGetInv, Confirm, Short
  <2>1. cpc = "result" => down = <<>> /\ local = Upper(source)
    BY <1>1 DEF WholeGetInv
  <2>2. cpc = "result" => down' = Got
    BY <2>1, NothingMore, MessageParts DEF Confirm
  <2> QED  BY <1>1, <1>2, <2>1, <2>2 DEF Confirm, WholeGetInv
<1> QED  BY <1>4, <1>5, <1>6, <1>7, <1>8

LEMMA StutterKeeps ==
  ASSUME TransferInv, UNCHANGED vars
  PROVE  TransferInv'
<1> USE DEF vars, ends
<1>1. TypeInv' /\ StoredInv'
  BY DEF TransferInv, TypeInv, StoredInv, Short, StartStored
<1>2. RemoveInv' /\ WriteInv' /\ WholeWriteInv'
  BY DEF TransferInv, RemoveInv, WriteInv, WholeWriteInv, AllStored
<1>3. GetInv' /\ ShortGetInv' /\ WholeGetInv'
  BY DEF TransferInv, GetInv, ShortGetInv, WholeGetInv, Short
<1> QED  BY <1>1, <1>2, <1>3 DEF TransferInv

LEMMA TransferInvHolds == Spec => []TransferInv
<1>1. Init => TransferInv  BY InitTransfer
<1>2. TransferInv /\ [Next]_vars => TransferInv'
  <2> SUFFICES ASSUME TransferInv, [Next]_vars PROVE TransferInv'
    OBVIOUS
  <2>1. CASE User  BY <2>1, WriteKeeps, GetKeeps, RemoveKeeps DEF User
  <2>2. CASE Client
    BY <2>2, AwaitAckKeeps, FetchKeeps, FetchNothingKeeps, AwaitResultKeeps DEF Client
  <2>3. CASE Server
    BY <2>3, OpenFileKeeps, StoreKeeps, StoreNothingKeeps, ReadNothingKeeps, ReadKeeps,
       ConfirmKeeps DEF Server
  <2>4. CASE UNCHANGED vars  BY <2>4, StutterKeeps
  <2> QED  BY <2>1, <2>2, <2>3, <2>4 DEF Next
<1> QED  BY <1>1, <1>2, PTL DEF Spec

(***************************************************************************)
(* The theorems.                                                           *)
(***************************************************************************)
(***************************************************************************)
(* For every set of texts and every buffer: a text that is short enough    *)
(* comes back whole and in upper case, and the user of a WRITE or GET that *)
(* succeeds is shown the server's last word (handle_write, handle_get,     *)
(* client_write, client_get).                                              *)
(***************************************************************************)
THEOREM TextsComeBack == Spec => []RoundTrip
<1>1. TransferInv => RoundTrip
  <2> SUFFICES ASSUME TransferInv, Over, ~parts, Short, status = "ok"
               PROVE  /\ command = "GET" => local = Upper(source) /\ answer = Got
                      /\ command = "WRITE" => answer = Written
    BY DEF RoundTrip
  <2> QED  BY DEF TransferInv, WholeGetInv, WholeWriteInv, Over
<1> QED  BY <1>1, TransferInvHolds, PTL

(***************************************************************************)
(* For every set of texts and every buffer: "Write Success" is printed     *)
(* only when the remote file is the cipher of the local file, if it fits   *)
(* a buffer and TCP did not cut it (handle_write, client_write).           *)
(***************************************************************************)
THEOREM SuccessIsTrue == Spec => []SuccessMeansStored
<1>1. TransferInv => SuccessMeansStored
  <2> SUFFICES ASSUME TransferInv, Over, ~parts, command = "WRITE", answer = Written,
                      Len(source) < Size
               PROVE  stored = pbEncode(source)
    BY DEF SuccessMeansStored
  <2>1. Written # <<>>  BY NothingMore, MessageParts
  <2> QED  BY <2>1 DEF TransferInv, WholeWriteInv, Over, AllStored
<1> QED  BY <1>1, TransferInvHolds, PTL

LEMMA StartIsPrefix ==
  ASSUME NEW p \in Seq(Bytes), NEW s \in Seq(Bytes), StartOf(p, s)
  PROVE  IsPrefix(p, s)
<1>1. Len(p) \in Nat /\ Len(p) <= Len(s)  BY DEF StartOf
<1>2. SubSeq(p, 1, Len(p)) = p  BY SubSeqFull
<1>3. Cut(s, Len(p)) = p  BY StartIsCut
<1>4. Cut(s, Len(p)) = SubSeq(s, 1, Len(p))
  <2>1. Least(Len(p), Len(s)) = Len(p)  BY <1>1 DEF Least
  <2> QED  BY <2>1 DEF Cut
<1> QED  BY <1>1, <1>2, <1>3, <1>4 DEF IsPrefix

(***************************************************************************)
(* For every set of texts, every buffer and every cut: the local copy of a *)
(* short text is never anything but the beginning of what was last         *)
(* written, and empty when the remote file is gone (client_get).           *)
(***************************************************************************)
THEOREM CopiesAreCurrent == Spec => []CopyIsCurrent
<1>1. TransferInv => CopyIsCurrent
  <2> SUFFICES ASSUME TransferInv, command = "GET", Short
               PROVE  IsPrefix(local, Upper(source)) /\ (stored = Absent => local = <<>>)
    BY DEF CopyIsCurrent
  <2>1. Upper(source) \in Seq(Bytes)
    BY SourceIsText, UpperParts DEF TransferInv, Short
  <2> QED  BY <2>1, StartIsPrefix DEF TransferInv, ShortGetInv
<1> QED  BY <1>1, TransferInvHolds, PTL

(***************************************************************************)
(* For every set of texts, every buffer and every cut: strlen(NULL) in     *)
(* handle_get needs a remote file at least as long as the buffer.          *)
(***************************************************************************)
THEOREM ShortNeverCrashes == Spec => []CrashOnlyWhenLong
<1>1. TransferInv => CrashOnlyWhenLong  BY DEF TransferInv, StoredInv, CrashOnlyWhenLong
<1> QED  BY <1>1, TransferInvHolds, PTL

=============================================================================
