------------------------------ MODULE Transfer -------------------------------
(***************************************************************************)
(* The file server of assignment 6 and its client (server.c, client.c,     *)
(* header.c).  The client sends how many files it wants and their names,   *)
(* the server answers with their sizes, each of these a string that is     *)
(* acknowledged by one byte; the files follow, each acknowledged at its    *)
(* end.  One client is served at a time.                                   *)
(*                                                                         *)
(* A stream is a sequence of items: a string [str |-> v] that was written  *)
(* whole, an acknowledgement, or one byte of a file.  A read of a string   *)
(* takes all that is there, up to a size no string reaches; short strings  *)
(* are not split on their way, bytes of a file are read in any portions.   *)
(* A reader that takes something else for its string is lost, and what it  *)
(* does then is not modelled.                                              *)
(*                                                                         *)
(* No string is ended, neither on its way nor in the buffer it is read     *)
(* into: what the buffer held before goes on behind it.  The server frees  *)
(* the buffers of names and gets them again from malloc(), so there a      *)
(* number or a name may be read as another one.  The client frees none,    *)
(* and reads every size as it was sent.                                    *)
(***************************************************************************)
EXTENDS Integers, Sequences, Bags

Seqs == INSTANCE SequencesExt

CONSTANTS
    Files,          \* names, sequences of characters
    Kind,           \* what a name of the server's directory stands for, if
                    \* it is there: "file", "link" to a file that can be read,
                    \* "dirlink", a link to a directory, or "socket"
    LinkSize,       \* the st_size of a link
    HeapJunk,       \* what malloc() leaves at the start of a freed buffer
    Contents,       \* what a file may hold, sequences of bytes
    NoFile,         \* the file does not exist, or cannot be read
    GetCalls,       \* the arguments of the command get
    CHUNK,
    MaxGets,        \* bound on the commands get
    MaxClients      \* bound on the clients, one after the other

\* x is a sequence.
IsSeq(x) == x \in Seq({x[k] : k \in DOMAIN x})

ASSUME TransferAssumption ==
    /\ CHUNK \in Nat \ {0}
    /\ Kind \in [Files -> {"file", "link", "dirlink", "socket"}]
    /\ LinkSize \in Nat
    /\ \A x \in Contents : IsSeq(x)
    /\ \A x \in GetCalls : IsSeq(x)
    /\ NoFile \notin Seq(UNION {{x[k] : k \in DOMAIN x} : x \in Contents})

VARIABLES
    cl,             \* the client
    sv,             \* the server
    toServer, toClient,
    open,           \* the client's end of the connection is open
    local, remote,  \* the files of the client and of the server
    freed,          \* what the freed buffers of the server hold, a bag
    fault,          \* what no delivery survives: a file of the server changed,
                    \* open() failed in getFile(), a string was read as another,
                    \* or lstat() gave something else than a length
    gets, clients

transferVars == <<cl, sv, toServer, toClient, open, local, remote, freed, fault,
                  gets, clients>>
serverSide == <<sv, remote, freed, clients>>
clientSide == <<cl, open, local, gets>>

FreshClient == [at |-> "prompt", args |-> <<>>, i |-> 0, sizes |-> <<>>,
                left |-> 0, off |-> 0]

TransferInit ==
    /\ cl = [FreshClient EXCEPT !.at = "gone"]
    /\ sv = [at |-> "accept", n |-> 0, names |-> <<>>, i |-> 0, sizes |-> <<>>,
             left |-> 0, off |-> 0]
    /\ toServer = <<>> /\ toClient = <<>> /\ open = FALSE
    /\ local \in [Files -> Contents \cup {NoFile}]
    /\ remote \in [Files -> Contents \cup {NoFile}]
    /\ freed = EmptyBag /\ fault = FALSE /\ gets = 0 /\ clients = 0

Str(v) == [str |-> v]
Ack == [ack |-> 1]
Byte(b) == [byte |-> b]
IsString(s) == Len(s) = 1 /\ "str" \in DOMAIN s[1]
IsAck(s) == "ack" \in DOMAIN s[1]

-----------------------------------------------------------------------------
(* clientStuff()                                                           *)

ClientSends(item) == toServer' = Append(toServer, item)

\* sendInt() of the number of files, before the acknowledgement.
Get(args) ==
    /\ cl.at = "prompt" /\ gets < MaxGets /\ args # <<>>
    /\ ClientSends(Str(Len(args)))
    /\ cl' = [FreshClient EXCEPT !.at = "ack", !.args = args]
    /\ gets' = gets + 1
    /\ UNCHANGED <<serverSide, toClient, open, local, fault>>

\* getAck(), and the sendString() of the next name.
GotAck ==
    /\ cl.at = "ack" /\ toClient # <<>>
    /\ toClient' = Tail(toClient)
    /\ IF ~IsAck(toClient)
       THEN cl' = [cl EXCEPT !.at = "lost"] /\ UNCHANGED toServer
       ELSE IF cl.i = Len(cl.args)
       THEN cl' = [cl EXCEPT !.at = "size", !.i = 1] /\ UNCHANGED toServer
       ELSE /\ cl' = [cl EXCEPT !.i = @ + 1]
            /\ ClientSends(Str(cl.args[cl.i + 1]))
    /\ UNCHANGED <<serverSide, open, local, fault, gets>>

\* getInt() of a size.
GetSize ==
    /\ cl.at = "size" /\ toClient # <<>>
    /\ toClient' = <<>>
    /\ ClientSends(Ack)
    /\ cl' = IF ~IsString(toClient) THEN [cl EXCEPT !.at = "lost"]
             ELSE [cl EXCEPT !.sizes = Append(@, toClient[1].str),
                             !.at = IF cl.i = Len(cl.args) THEN "file" ELSE @,
                             !.i = IF cl.i = Len(cl.args) THEN 1 ELSE @ + 1]
    /\ UNCHANGED <<serverSide, open, local, fault, gets>>

GetsDone ==
    /\ cl.at = "file" /\ cl.i > Len(cl.args)
    /\ cl' = [cl EXCEPT !.at = "prompt"]
    /\ UNCHANGED <<serverSide, toServer, toClient, open, local, fault, gets>>

SkipInvalid ==
    /\ cl.at = "file" /\ cl.i <= Len(cl.args) /\ cl.sizes[cl.i] < 0
    /\ cl' = [cl EXCEPT !.i = @ + 1]
    /\ UNCHANGED <<serverSide, toServer, toClient, open, local, fault, gets>>

\* getFile() opens the file, made empty if it is not there and not truncated.
OpenLocal ==
    /\ cl.at = "file" /\ cl.i <= Len(cl.args) /\ cl.sizes[cl.i] >= 0
    /\ cl' = [cl EXCEPT !.at = "recv", !.left = cl.sizes[cl.i], !.off = 0]
    /\ local' = [local EXCEPT ![cl.args[cl.i]] = IF @ = NoFile THEN <<>> ELSE @]
    /\ UNCHANGED <<serverSide, toServer, toClient, open, fault, gets>>

\* Or it cannot, and returns without a word to the server.
OpenLocalFails ==
    /\ cl.at = "file" /\ cl.i <= Len(cl.args) /\ cl.sizes[cl.i] >= 0
    /\ cl' = [cl EXCEPT !.i = @ + 1]
    /\ fault' = TRUE
    /\ UNCHANGED <<serverSide, toServer, toClient, open, local, gets>>

\* x with the items s written over it from the offset on.
Written(x, s, off) ==
    [k \in 1..(IF off + Len(s) > Len(x) THEN off + Len(s) ELSE Len(x)) |->
        IF k - off \in 1..Len(s) THEN s[k - off].byte ELSE x[k]]

\* Mutant: the count is taken for the size of what was asked for.
LeftChunk(k) == cl.left - CHUNK

\* "left -= read_bytes"
LeftAfter(k) == cl.left - k

\* One turn of the loop of getFile(), which asks for a whole CHUNK each time.
Receive(k) ==
    /\ cl.at = "recv" /\ cl.left > 0 /\ k <= Len(toClient)
    /\ toClient' = SubSeq(toClient, k + 1, Len(toClient))
    /\ local' = [local EXCEPT ![cl.args[cl.i]] =
                    Written(@, SubSeq(toClient, 1, k), cl.off)]
    /\ cl' = [cl EXCEPT !.left = LeftAfter(k), !.off = @ + k]
    /\ UNCHANGED <<serverSide, toServer, open, fault, gets>>

\* Mutant: an empty file is not acknowledged.
ReceivedAckData == IF cl.off = 0 THEN UNCHANGED toServer ELSE ClientSends(Ack)

ReceivedAck == ClientSends(Ack)

Received ==
    /\ cl.at = "recv" /\ cl.left <= 0
    /\ ReceivedAck
    /\ cl' = [cl EXCEPT !.at = "file", !.i = @ + 1]
    /\ UNCHANGED <<serverSide, toClient, open, local, fault, gets>>

\* The command exit, the end of the input, a get without names, or the client
\* is killed in the middle.  What it sent may be dropped with the connection.
ClientGone ==
    /\ cl.at # "gone"
    /\ cl' = [FreshClient EXCEPT !.at = "gone"]
    /\ open' = FALSE
    /\ toServer' \in {toServer, <<>>}
    /\ toClient' = <<>>
    /\ UNCHANGED <<serverSide, local, fault, gets>>

-----------------------------------------------------------------------------
(* main() of the server.                                                   *)

\* accept().  What a client sends before is read after, so that it starts here.
WaitForClient ==
    /\ sv.at = "accept" /\ cl.at = "gone" /\ clients < MaxClients
    /\ clients' = clients + 1
    /\ sv' = [sv EXCEPT !.at = "count"]
    /\ cl' = FreshClient /\ open' = TRUE
    /\ toServer' = <<>> /\ toClient' = <<>>
    /\ UNCHANGED <<local, remote, freed, fault, gets>>

\* write() to a client that has gone is lost, or SIGPIPE ends the server.
ServerSends(items, next) ==
    IF open THEN toClient' = toClient \o items /\ sv' = next
    ELSE UNCHANGED toClient /\ sv' \in {next, [next EXCEPT !.at = "dead"]}

EndOfStream == ~open /\ toServer = <<>>

\* malloc() in getString(): memory that was never used, or a freed buffer with
\* what it holds.
TakeBuffer(old) ==
    \/ old = <<>> /\ UNCHANGED freed
    \/ old \in BagToSet(freed) /\ freed' = freed (-) SetToBag({old})

\* read() puts the string s over the beginning of it, and nothing ends it.
Overlaid(s, old) == s \o SubSeq(old, Len(s) + 1, Len(old))

\* The numeral that sprintf() makes of a number.
Digits == <<"0", "1", "2", "3", "4", "5", "6", "7", "8", "9">>
Numeral[n \in Nat] ==
    (IF n < 10 THEN <<>> ELSE Numeral[n \div 10]) \o <<Digits[(n % 10) + 1]>>

\* strtoll() stops at the first character that is no digit.
Strtoll(s) ==
    LET stop == Seqs!SelectInSeq(s, LAMBDA x : \A d \in 1..10 : x # Digits[d])
        numeral == IF stop = 0 THEN s ELSE SubSeq(s, 1, stop - 1)
    IN  Seqs!FoldLeft(LAMBDA v, x : 10 * v + (CHOOSE d \in 1..10 : Digits[d] = x) - 1,
                      0, numeral)

\* getInt() of the number of files.  It never frees the buffer.
GetCount ==
    /\ sv.at = "count" /\ toServer # <<>>
    /\ toServer' = <<>>
    /\ \E old \in {<<>>} \cup BagToSet(freed) :
        /\ TakeBuffer(old)
        /\ IF IsString(toServer)
           THEN \E n \in {Strtoll(Overlaid(Numeral[toServer[1].str], old))} :
                /\ fault' = (fault \/ n # toServer[1].str)
                /\ ServerSends(<<Ack>>,
                        [sv EXCEPT !.at = "names", !.n = n, !.i = 1,
                                   !.names = <<>>, !.sizes = <<>>])
           ELSE ServerSends(<<Ack>>, [sv EXCEPT !.at = "lost"]) /\ UNCHANGED fault
    /\ UNCHANGED <<clientSide, remote, clients>>

\* getInt() returns -1 at the end of the stream.
NextClient ==
    /\ sv.at = "count" /\ EndOfStream
    /\ \E old \in {<<>>} \cup BagToSet(freed) : TakeBuffer(old)
    /\ sv' = [sv EXCEPT !.at = "accept", !.n = 0, !.i = 0, !.names = <<>>,
                        !.sizes = <<>>, !.left = 0, !.off = 0]
    /\ UNCHANGED <<clientSide, toServer, toClient, remote, fault, clients>>

\* The index moves on; after the last file, to the place nextAt.
Advanced(next, nextAt) ==
    IF sv.i = sv.n THEN [next EXCEPT !.at = nextAt, !.i = 1]
    ELSE [next EXCEPT !.i = @ + 1]

GetName ==
    /\ sv.at = "names" /\ toServer # <<>>
    /\ toServer' = <<>>
    /\ \E old \in {<<>>} \cup BagToSet(freed) :
        /\ TakeBuffer(old)
        /\ IF IsString(toServer)
           THEN \E name \in {Overlaid(toServer[1].str, old)} :
                /\ fault' = (fault \/ name # toServer[1].str)
                /\ ServerSends(<<Ack>>,
                        Advanced([sv EXCEPT !.names = Append(@, name)], "size"))
           ELSE ServerSends(<<Ack>>, [sv EXCEPT !.at = "lost"]) /\ UNCHANGED fault
    /\ UNCHANGED <<clientSide, remote, clients>>

\* getString() returns NULL, which is kept as the name.
GetNoName ==
    /\ sv.at = "names" /\ EndOfStream
    /\ \E old \in {<<>>} \cup BagToSet(freed) : TakeBuffer(old)
    /\ sv' = Advanced([sv EXCEPT !.names = Append(@, NoFile)], "size")
    /\ UNCHANGED <<clientSide, toServer, toClient, remote, fault, clients>>

Exists(name) == name \in Files /\ remote[name] # NoFile

\* The st_size, or -1.  The mask S_IFREG lets sockets and links through, whose
\* bits contain it; lstat() tells of a link itself, access() of its target.
Lstat(name) ==
    IF ~Exists(name) THEN -1
    ELSE CASE Kind[name] = "file" -> Len(remote[name])
           [] Kind[name] = "socket" -> 0
           [] OTHER -> LinkSize

\* The length of the file that can be read under this name, or -1.
LengthOf(name) ==
    IF name \notin Files THEN -1
    ELSE IF Kind[name] \notin {"file", "link"} \/ remote[name] = NoFile THEN -1
    ELSE Len(remote[name])

\* The sendInt() of the size, before the acknowledgement.
SendSize ==
    /\ sv.at = "size"
    /\ \E n \in {Lstat(sv.names[sv.i])} :
        /\ fault' = (fault \/ n # LengthOf(sv.names[sv.i]))
        /\ ServerSends(<<Str(n)>>, [sv EXCEPT !.at = "sizeAck",
                                              !.sizes = Append(@, n)])
    /\ UNCHANGED <<clientSide, toServer, remote, freed, clients>>

\* free(filenames[i]): the name stays in the buffer, or malloc() writes over
\* the beginning of it.  free(NULL) does nothing.
FreeName ==
    IF sv.names[sv.i] = NoFile THEN UNCHANGED freed
    ELSE \E x \in {sv.names[sv.i]} \cup HeapJunk : freed' = freed (+) SetToBag({x})

\* getAck() reads one byte, of a size or of a file, whose name is freed then;
\* at the end of the stream it goes on.
ServerAcked ==
    /\ sv.at \in {"sizeAck", "fileAck"}
    /\ toServer # <<>> \/ EndOfStream
    /\ toServer' = IF toServer = <<>> THEN <<>> ELSE Tail(toServer)
    /\ sv' = IF toServer # <<>> /\ ~IsAck(toServer) THEN [sv EXCEPT !.at = "lost"]
             ELSE IF sv.at = "fileAck" THEN [sv EXCEPT !.at = "file", !.i = @ + 1]
             ELSE Advanced([sv EXCEPT !.at = "size"], "file")
    /\ IF sv.at = "fileAck" THEN FreeName ELSE UNCHANGED freed
    /\ UNCHANGED <<clientSide, toClient, remote, fault, clients>>

FilesDone ==
    /\ sv.at = "file" /\ sv.i > sv.n
    /\ sv' = [sv EXCEPT !.at = "count"]
    /\ UNCHANGED <<clientSide, toServer, toClient, remote, freed, fault, clients>>

Opens(name) == Exists(name) /\ Kind[name] # "socket"

\* sendFile() is not called, or cannot open the file; the name is freed.
NotSent ==
    /\ sv.at = "file" /\ sv.i <= sv.n
    /\ sv.sizes[sv.i] < 0 \/ ~Opens(sv.names[sv.i])
    /\ sv' = [sv EXCEPT !.i = @ + 1]
    /\ FreeName
    /\ UNCHANGED <<clientSide, toServer, toClient, remote, fault, clients>>

OpenRemote ==
    /\ sv.at = "file" /\ sv.i <= sv.n
    /\ sv.sizes[sv.i] >= 0 /\ Opens(sv.names[sv.i])
    /\ sv' = [sv EXCEPT !.at = "send", !.left = sv.sizes[sv.i], !.off = 0]
    /\ UNCHANGED <<clientSide, toServer, toClient, remote, freed, fault, clients>>

\* The next CHUNK of the file, which may be shorter at its end.
NextChunk ==
    LET x == remote[sv.names[sv.i]]
        to == IF sv.off + CHUNK > Len(x) THEN Len(x) ELSE sv.off + CHUNK
    IN  [k \in 1..(to - sv.off) |-> Byte(x[sv.off + k])]

\* The file that is being sent is a directory: read() fails.
ReadFails == Kind[sv.names[sv.i]] = "dirlink"

\* One turn of the loop of sendFile().  Past the end of a file that is shorter
\* than its size it turns for ever; a write() that takes a part only trips
\* assert().
SendChunk ==
    /\ sv.at = "send" /\ sv.left > 0 /\ ~ReadFails /\ NextChunk # <<>>
    /\ \/ ServerSends(NextChunk, [sv EXCEPT !.left = @ - Len(NextChunk),
                                            !.off = @ + Len(NextChunk)])
       \/ \E k \in 1..(Len(NextChunk) - 1) :
            ServerSends(SubSeq(NextChunk, 1, k), [sv EXCEPT !.at = "dead"])
    /\ UNCHANGED <<clientSide, toServer, remote, freed, fault, clients>>

\* All is sent, or "Error reading", which breaks out of the loop.
SendFileEnd ==
    /\ sv.at = "send" /\ (sv.left <= 0 \/ ReadFails)
    /\ sv' = [sv EXCEPT !.at = "fileAck"]
    /\ UNCHANGED <<clientSide, toServer, toClient, remote, freed, fault, clients>>

\* Somebody changes a file of the server while a client is being served.
\* (A file that is removed while it is open is still sent.)
ChangeFile(f, x) ==
    /\ ~fault /\ x # remote[f]
    /\ sv.at \notin {"accept", "dead", "lost"}
    /\ x = NoFile => ~(sv.at = "send" /\ sv.names[sv.i] = f)
    /\ remote' = [remote EXCEPT ![f] = x]
    /\ fault' = TRUE
    /\ UNCHANGED <<clientSide, sv, toServer, toClient, freed, clients>>

TransferNext ==
    \/ (\E args \in GetCalls : Get(args)) \/ GotAck \/ GetSize \/ GetsDone
    \/ SkipInvalid \/ OpenLocal \/ OpenLocalFails
    \/ (\E k \in 1..CHUNK : Receive(k)) \/ Received \/ ClientGone
    \/ WaitForClient \/ GetCount \/ NextClient \/ GetName \/ GetNoName
    \/ SendSize \/ ServerAcked \/ FilesDone \/ NotSent \/ OpenRemote
    \/ SendChunk \/ SendFileEnd
    \/ \E f \in Files, x \in Contents \cup {NoFile} : ChangeFile(f, x)

-----------------------------------------------------------------------------
\* As long as no string is read as another (see Overlaid), no size is that of a
\* link or a socket, no file changes and the client can open its own: when get
\* is over, every file that exists on the server has been received.  Its bytes
\* are at the beginning of the client's file, whatever portions they came in,
\* whoever was killed before and whatever was asked for; no item is ever taken
\* for one of another kind.  An older, longer file of the client keeps its end.
Delivered ==
    ~fault =>
        /\ cl.at # "lost" /\ sv.at # "lost"
        /\ cl.at = "prompt" =>
             \A k \in DOMAIN cl.args :
                /\ cl.sizes[k] = LengthOf(cl.args[k])
                /\ cl.sizes[k] >= 0 => Seqs!IsPrefix(remote[cl.args[k]], local[cl.args[k]])

ClientWaits == \/ cl.at \in {"ack", "size"} /\ toClient = <<>>
               \/ cl.at = "recv" /\ cl.left > 0 /\ toClient = <<>>
ServerWaits == sv.at \in {"count", "names", "sizeAck", "fileAck"} /\ toServer = <<>>

\* Under the same four conditions client and server never wait for each other:
\* an answer is always on its way.  Without them they can: a count read as
\* another one has the server wait for names that nobody sends.
NeverBothWait == ~fault => ~(open /\ ClientWaits /\ ServerWaits)
=============================================================================
