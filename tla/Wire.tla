--------------------------------- MODULE Wire ---------------------------------
(***************************************************************************)
(* One connection byte by byte: SockSend and SockRecv, the calls a client  *)
(* sends over it, and the thread that serves it, in a compute node ("cn")  *)
(* or in the dispatcher ("dispatcher").                                    *)
(* Source: src/common and src/common_client IO.cc, the request functions   *)
(* of src/client/elastic.cc and newscl.cc, Run of src/cn/cn.cc and of      *)
(* src/dispatcher/dispatcher.cc with the receives and replies of their     *)
(* handlers, RegisterToDispatcher and updateScore of src/cn/cn.cc.         *)
(*                                                                         *)
(* Every send and recv moves any number of bytes that fits.  Calls that    *)
(* look alike on the wire are one: "task" stands for every call that is a  *)
(* header only, "write" for a header and data without a reply (a buffer    *)
(* created from host memory too), "blockingWrite" for the same with a      *)
(* reply (CreateKernel too).                                               *)
(* The network is TCP: reliable and in order while both ends are open.     *)
(***************************************************************************)
EXTENDS Naturals, SequencesExt

CONSTANTS
    HeaderLen,   \* kMsgMaxSize
    EndLen,      \* the 3 bytes of END
    BufCap,      \* bound: what the network holds in one direction
    WrapAt,      \* 2^32 for the unsigned int recv_size and total_recv_size
    Lens,        \* bound: lengths of payloads
    MaxCalls     \* bound: calls of the client

ASSUME LengthsAssumption == {HeaderLen, EndLen, BufCap} \subseteq Nat \ {0} /\ EndLen <= HeaderLen
ASSUME WidthAssumption == WrapAt \in Nat /\ WrapAt > 2 * HeaderLen
ASSUME BoundsAssumption == Lens \subseteq Nat /\ 0 \in Lens /\ MaxCalls \in Nat

VARIABLES
    peer,       \* who serves the connection
    calls,      \* what the client has called, in order
    outgoing,   \* what it has yet to pass to SockSend: the lengths of the pieces
    awaited,    \* bytes of the reply it has yet to receive
    exit,       \* has the client ended: "none", "clean" or "abrupt"
    toServer,   \* bytes in flight, each with its call, the piece it is of and its place in it
    toClient,   \* bytes of replies in flight, each with its call
    closing,    \* what the server's recv reports when toServer is empty: "open", "fin", "rst"
    at,         \* where the thread is: "header", "payload", "upload", "reply", "left"
    total,      \* total_recv_size
    got,        \* the bytes of the message it has
    want,       \* what the handler has yet to receive: the lengths of the pieces
    owed,       \* bytes of the reply it has yet to send
    node,       \* the server's process: "up" or "ended"
    handled,    \* history: the calls handled, each with the bytes taken for it
    lost        \* history: END was not recognised, or bytes behind it were dropped

clientVars == <<calls, outgoing, awaited, exit>>
serverVars == <<at, total, got, want, owed, node, handled, lost>>
vars == <<peer, clientVars, toServer, toClient, closing, serverVars>>

-----------------------------------------------------------------------------
(* The protocol, as each end has it.                                       *)

CallsOf(p) ==
    IF p = "cn"
    THEN [kind : {"task"}, len : {0}] \cup [kind : {"write", "blockingWrite", "program", "build"}, len : Lens]
    ELSE [kind : {"register", "load"}, len : {0}] \cup [kind : {"score"}, len : Lens]

\* updateScore sends a header, the file in full blocks, and END.
ScorePieces(blocks) == [i \in 1 .. blocks + 2 |-> IF i = blocks + 2 THEN EndLen ELSE HeaderLen]

\* The pieces the client sends.  A program is its length (one unit here), then its text; the
\* options of a build follow it unless they are empty.
Sends(c) ==
    CASE c.kind \in {"task", "register", "load"} -> <<HeaderLen>>
      [] c.kind \in {"write", "blockingWrite"} -> <<HeaderLen, c.len>>
      [] c.kind = "program" -> <<HeaderLen, 1, c.len>>
      [] c.kind = "build" -> IF c.len = 0 THEN <<HeaderLen>> ELSE <<HeaderLen, c.len>>
      [] c.kind = "score" -> ScorePieces(c.len)

\* What the handler receives after the header, where n is the length of the data.
Payloads(c, n) ==
    CASE c.kind \in {"write", "blockingWrite"} -> <<n>>
      [] c.kind = "program" -> <<1, n>>
      [] OTHER -> <<>>

\* The variants receive a terminating zero too, or not the text of a program.
RecvsWithZero(c) == Payloads(c, c.len + 1)
RecvsNoText(c) == IF c.kind = "program" THEN <<1>> ELSE Payloads(c, c.len)
Recvs(c) == Payloads(c, c.len)

\* The reply; that to a registration is the id only.
Reply(c) ==
    CASE c.kind \in {"blockingWrite", "program", "build"} -> HeaderLen
      [] c.kind = "register" -> 1
      [] c.kind = "score" -> EndLen
      [] OTHER -> 0

\* What the client receives of it: updateScore receives from another socket.  The variant
\* goes on without waiting.
AwaitedNone(c) == 0
Awaited(c) == IF c.kind = "score" THEN 0 ELSE Reply(c)

\* n bytes of the first piece are done.
Less(pieces, n) ==
    IF n = Head(pieces) THEN Tail(pieces) ELSE <<Head(pieces) - n>> \o Tail(pieces)

\* The byte of call i that is next when these pieces of it are left.
ByteAt(i, rest) ==
    LET pieces == Sends(calls[i])
        p == Len(pieces) - Len(rest) + 1
    IN [call |-> i, piece |-> p, byte |-> pieces[p] - Head(rest) + 1]

AtMost(a, b) == 1 .. (IF a < b THEN a ELSE b)
Taken(s, n) == SubSeq(s, 1, n)
Dropped(s, n) == SubSeq(s, n + 1, Len(s))

Init ==
    /\ peer \in {"cn", "dispatcher"}
    /\ calls = <<>> /\ outgoing = <<>> /\ awaited = 0 /\ exit = "none"
    /\ toServer = <<>> /\ toClient = <<>> /\ closing = "open"
    /\ at = "header" /\ total = 0 /\ got = <<>> /\ want = <<>> /\ owed = 0
    /\ node = "up" /\ handled = <<>> /\ lost = FALSE

-----------------------------------------------------------------------------
(* The client.                                                             *)

Idle == outgoing = <<>> /\ awaited = 0

\* A node registers first.
Issue(c) ==
    /\ exit = "none" /\ Idle /\ Len(calls) < MaxCalls
    /\ peer = "dispatcher" => (c.kind = "register" <=> calls = <<>>)
    /\ calls' = Append(calls, c)
    /\ outgoing' = Sends(c)
    /\ awaited' = Awaited(c)
    /\ UNCHANGED <<peer, exit, toServer, toClient, closing, serverVars>>

ClientSend ==
    /\ exit = "none" /\ node = "up" /\ outgoing # <<>>
    /\ \E n \in AtMost(Head(outgoing), BufCap - Len(toServer)) :
        /\ toServer' = toServer \o
               [u \in 1 .. n |-> [ByteAt(Len(calls), outgoing) EXCEPT !.byte = @ + u - 1]]
        /\ outgoing' = Less(outgoing, n)
    /\ UNCHANGED <<peer, calls, awaited, exit, toClient, closing, serverVars>>

ClientRecv ==
    /\ exit = "none" /\ outgoing = <<>>
    /\ \E n \in AtMost(awaited, Len(toClient)) :
        /\ toClient' = Dropped(toClient, n)
        /\ awaited' = awaited - n
    /\ UNCHANGED <<peer, calls, outgoing, exit, toServer, closing, serverVars>>

\* The kernel closes the connection of a client that ended.  If there are bytes it never read,
\* the connection is reset, and what it sent last may be gone.
CloseConnection ==
    /\ exit' = IF Idle /\ toClient = <<>> THEN "clean" ELSE "abrupt"
    /\ IF toClient = <<>>
       THEN closing' = "fin" /\ UNCHANGED toServer
       ELSE closing' = "rst" /\ \E n \in 0 .. Len(toServer) : toServer' = Taken(toServer, n)
    /\ UNCHANGED <<peer, calls, outgoing, awaited, toClient, serverVars>>

\* exit(1) in SockSend and SockRecv: nobody is there any more, or the length is 0, for which
\* send returns 0.
ClientFails ==
    /\ exit = "none"
    /\ \/ outgoing # <<>> /\ (node = "ended" \/ Head(outgoing) = 0)
       \/ outgoing = <<>> /\ awaited > 0 /\ node = "ended" /\ toClient = <<>>
    /\ CloseConnection

\* The application ends, at any time.
ClientEnds == exit = "none" /\ CloseConnection

-----------------------------------------------------------------------------
(* Run, and the receives of the handlers.                                  *)

\* total_recv_size after a message; the variant forgets to reset it.
RestartedNot == HeaderLen
Restarted == 0

\* The handler has all it needs: it does its work and owes its reply.
Handle(units) ==
    LET i == units[1].call
    IN /\ handled' = Append(handled, [call |-> i, got |-> units])
       /\ owed' = Reply(calls[i])
       /\ at' = IF owed' > 0 THEN "reply" ELSE "header"
       /\ got' = <<>> /\ want' = <<>>

Dispatch(units) ==
    LET c == calls[units[1].call]
    IN \/ c.kind = "score" /\ at' = "upload" /\ got' = units /\ UNCHANGED <<want, owed, handled>>
       \/ c.kind # "score" /\ Recvs(c) = <<>> /\ Handle(units)
       \/ Recvs(c) # <<>> /\ at' = "payload" /\ got' = units /\ want' = Recvs(c) /\ UNCHANGED <<owed, handled>>

\* Is this a header, and not other bytes taken for one?
Framed(units) == \A u \in DOMAIN units : units[u] = [call |-> units[1].call, piece |-> 1, byte |-> u]

\* kMsgMaxSize - total_recv_size
Space == (HeaderLen + WrapAt - total) % WrapAt

RecvHeader ==
    /\ at = "header" /\ node = "up"
    /\ \E n \in AtMost(Space, Len(toServer)) :
        LET all == got \o Taken(toServer, n)
        IN /\ toServer' = Dropped(toServer, n)
           /\ IF total + n < HeaderLen
              THEN total' = total + n /\ got' = all /\ UNCHANGED <<at, want, owed, handled>>
              ELSE total' = Restarted /\ Framed(all) /\ Dispatch(all)
    /\ UNCHANGED <<peer, clientVars, toClient, closing, node, lost>>

\* Other bytes: assert(false) on an unknown type.  What is left of a header may even look like
\* another message to the dispatcher; options, which are text, do not to a compute node.
RecvMisframed ==
    /\ at = "header" /\ node = "up"
    /\ LET n == HeaderLen - total
       IN /\ n \in AtMost(Space, Len(toServer))
          /\ ~Framed(got \o Taken(toServer, n))
          /\ toServer' = Dropped(toServer, n)
    /\ node' \in IF peer = "cn" THEN {"ended"} ELSE {"up", "ended"}
    /\ total' = Restarted /\ got' = <<>>
    /\ UNCHANGED <<peer, clientVars, toClient, closing, at, want, owed, handled, lost>>

\* total_recv_size += -1 with the loop's condition on an unsigned recv_size.
AddedError == (total + WrapAt - 1) % WrapAt

\* recv returns -1: the compute node goes on, the dispatcher's thread leaves without DelCN.
RecvError ==
    /\ at = "header" /\ node = "up" /\ toServer = <<>> /\ closing = "rst"
    /\ closing' = "fin"
    /\ IF peer = "cn"
       THEN total' = AddedError /\ UNCHANGED at
       ELSE at' = "left" /\ UNCHANGED total
    /\ UNCHANGED <<peer, clientVars, toServer, toClient, got, want, owed, node, handled, lost>>

\* The loop ends when recv returns 0; the variant waits for a negative value.
AfterEndGoOn == "header"
AfterEnd == "left"

RecvEnd ==
    /\ at = "header" /\ node = "up" /\ toServer = <<>> /\ closing = "fin"
    /\ at' = AfterEnd
    /\ UNCHANGED <<peer, clientVars, toServer, toClient, closing, total, got, want, owed, node, handled, lost>>

\* SockRecv.
RecvPayload ==
    /\ at = "payload" /\ node = "up"
    /\ \E n \in AtMost(Head(want), Len(toServer)) :
        LET all == got \o Taken(toServer, n)
        IN /\ toServer' = Dropped(toServer, n)
           /\ IF Less(want, n) = <<>>
              THEN Handle(all)
              ELSE want' = Less(want, n) /\ got' = all /\ UNCHANGED <<at, owed, handled>>
    /\ UNCHANGED <<peer, clientVars, toClient, closing, total, node, lost>>

\* Its exit(1) ends the whole node.  recv of no bytes waits too, then returns 0.
RecvPayloadFails ==
    /\ at = "payload" /\ node = "up"
    /\ \/ toServer = <<>> /\ closing # "open"
       \/ toServer # <<>> /\ Head(want) = 0
    /\ node' = "ended"
    /\ UNCHANGED <<peer, clientVars, toServer, toClient, closing, at, total, got, want, owed, handled, lost>>

\* SockSend of the reply.
SendReply ==
    /\ at = "reply" /\ node = "up" /\ closing = "open"
    /\ \E n \in AtMost(owed, BufCap - Len(toClient)) :
        /\ toClient' = toClient \o [u \in 1 .. n |-> Last(handled).call]
        /\ owed' = owed - n
        /\ at' = IF n = owed THEN "header" ELSE "reply"
    /\ UNCHANGED <<peer, clientVars, toServer, closing, total, got, want, node, handled, lost>>

\* The client is gone: the first send still succeeds and is answered by a reset; one after a
\* reset fails or raises SIGPIPE, which ends the node.
SendReplyToNobody ==
    /\ at = "reply" /\ node = "up" /\ closing # "open"
    /\ \/ closing = "fin" /\ closing' = "rst" /\ owed' = 0 /\ at' = "header" /\ UNCHANGED node
       \/ node' = "ended" /\ UNCHANGED <<closing, owed, at>>
    /\ UNCHANGED <<peer, clientVars, toServer, toClient, total, got, want, handled, lost>>

-----------------------------------------------------------------------------
(* HandlerUpdateScore.                                                     *)

IsEnd(u) == calls[u.call].kind = "score" /\ u.piece = Len(Sends(calls[u.call]))

\* strncmp(end, ...) of the first three bytes recv returned.
StartsWithEnd(chunk) == Len(chunk) >= EndLen /\ \A u \in 1 .. EndLen : IsEnd(chunk[u]) /\ chunk[u].byte = u

\* The raw send of END, whose result is ignored; nobody receives it.
Confirmed(i) == toClient \o [u \in 1 .. EndLen |-> i]

ScoreDone ==
    /\ handled' = Append(handled, [call |-> got[1].call, got |-> got])
    /\ at' = "header" /\ got' = <<>>

\* end is not terminated, so that strcmp may well not find it equal; anything else is written to
\* the file.
RecvScore ==
    /\ at = "upload" /\ node = "up"
    /\ \E n \in AtMost(HeaderLen, Len(toServer)) :
        LET chunk == Taken(toServer, n)
        IN /\ toServer' = Dropped(toServer, n)
           /\ \/ /\ StartsWithEnd(chunk)
                 /\ ScoreDone
                 /\ toClient' = IF closing = "open" THEN Confirmed(got[1].call) ELSE toClient
                 /\ lost' = (lost \/ n > EndLen)
              \/ /\ got' = got \o chunk
                 /\ lost' = (lost \/ \E u \in DOMAIN chunk : IsEnd(chunk[u]))
                 /\ UNCHANGED <<toClient, at, handled>>
    /\ UNCHANGED <<peer, clientVars, closing, total, want, owed, node>>

\* recv returns 0 or -1: the score is updated from what there is.  The send of END may raise
\* SIGPIPE after a reset.
RecvScoreEnds ==
    /\ at = "upload" /\ node = "up" /\ toServer = <<>> /\ closing # "open"
    /\ \/ ScoreDone /\ closing' \in {"fin", "rst"} /\ UNCHANGED node
       \/ closing = "rst" /\ node' = "ended" /\ UNCHANGED <<closing, at, got, handled>>
    /\ UNCHANGED <<peer, clientVars, toServer, toClient, total, want, owed, lost>>

-----------------------------------------------------------------------------
ClientStep == ClientSend \/ ClientRecv \/ ClientFails

ServerStep ==
    \/ RecvHeader \/ RecvMisframed \/ RecvError \/ RecvEnd
    \/ RecvPayload \/ RecvPayloadFails
    \/ SendReply \/ SendReplyToNobody
    \/ RecvScore \/ RecvScoreEnds

\* Nothing is left to happen on this connection.
Over == exit # "none" /\ (at = "left" \/ node = "ended") /\ UNCHANGED vars

Next ==
    \/ \E c \in CallsOf(peer) : Issue(c)
    \/ ClientStep \/ ClientEnds
    \/ ServerStep
    \/ Over

Spec == Init /\ [][Next]_vars

\* A send or recv that can proceed returns.  Nobody has to call or to end.
FairSpec == Spec /\ WF_vars(ClientStep) /\ WF_vars(ServerStep)

-----------------------------------------------------------------------------
(* Properties.                                                             *)

\* Types; neither direction holds more than it can, but for the confirmations of scores.
Byte == [call : Nat, piece : Nat, byte : Nat]
TypeOK ==
    /\ peer \in {"cn", "dispatcher"}
    /\ calls \in Seq(CallsOf(peer)) /\ outgoing \in Seq(Nat) /\ awaited \in Nat
    /\ toServer \in Seq(Byte) /\ toClient \in Seq(Nat)
    /\ got \in Seq(Byte) /\ want \in Seq(Nat) /\ owed \in Nat
    /\ handled \in Seq([call : Nat, got : Seq(Byte)]) /\ lost \in BOOLEAN
    /\ Len(handled) <= Len(calls) /\ Len(calls) <= MaxCalls
    /\ exit \in {"none", "clean", "abrupt"} /\ closing \in {"open", "fin", "rst"}
    /\ at \in {"header", "payload", "upload", "reply", "left"} /\ node \in {"up", "ended"}
    /\ total \in 0 .. WrapAt - 1
    /\ (at = "payload") = (want # <<>>) /\ (at = "reply") = (owed > 0)
    /\ Len(toServer) <= BufCap /\ Len(toClient) <= BufCap + EndLen * Len(handled)

\* The byte that a client sends after this one.
After(u) ==
    LET pieces == Sends(calls[u.call])
    IN IF u.byte < pieces[u.piece] THEN [u EXCEPT !.byte = @ + 1]
       ELSE IF u.piece < Len(pieces) THEN [call |-> u.call, piece |-> u.piece + 1, byte |-> 1]
       ELSE [call |-> u.call + 1, piece |-> 1, byte |-> 1]

\* These are all bytes of a call, in order, as the server receives them: a score without its
\* END, a build without its options.
AllBytesOf(i, units) ==
    LET pieces == Sends(calls[i])
        read == IF calls[i].kind = "score" THEN Len(pieces) - 1
                ELSE IF calls[i].kind = "build" THEN 1 ELSE Len(pieces)
    IN /\ units # <<>> /\ units[1] = [call |-> i, piece |-> 1, byte |-> 1]
       /\ \A k \in DOMAIN units : units[k].call = i /\ (k < Len(units) => units[k + 1] = After(units[k]))
       /\ Last(units) = [call |-> i, piece |-> read, byte |-> pieces[read]]

\* However send and recv cut the stream into pieces, a handler works on exactly the bytes its
\* call sent, and the client takes for the reply of a call only what was sent in reply to it.
\* Two things excuse the score file: the client died while sending it, or an END was missed.
OwnBytesOnly ==
    /\ \A h \in DOMAIN handled : AllBytesOf(handled[h].call, handled[h].got) \/ exit = "abrupt" \/ lost
    /\ awaited > 0 => \A u \in DOMAIN toClient : toClient[u] = Len(calls)

\* A client that ends between two calls, having read its replies, does not take the node with
\* it, whatever it has called, unless it built a program with options (or an END was missed).
NodeOutlivesCleanExit ==
    node = "ended" =>
        \/ exit = "abrupt" \/ lost
        \/ \E i \in DOMAIN calls : calls[i].kind = "build" /\ calls[i].len > 0

\* recv_size is unsigned, so that an error counts as 2^32 - 1 bytes received and the loop goes on.
\* No byte is ever stored at the offset that results.
NoStoreAfterError == at = "header" /\ node = "up" /\ toServer # <<>> => total < HeaderLen

-----------------------------------------------------------------------------
(* What makes those properties inductive.                                  *)

\* These pieces are what is left of a call's.
RestOf(rest, pieces) ==
    /\ Len(rest) <= Len(pieces)
    /\ \A k \in 2 .. Len(rest) : rest[k] = pieces[Len(pieces) - Len(rest) + k]
    /\ rest # <<>> =>
        LET piece == pieces[Len(pieces) - Len(rest) + 1]
        IN rest[1] <= piece /\ (rest[1] = 0 => piece = 0)

\* What the handler has or will get, and the byte that will be sent next.
Stream == got \o toServer
FirstOfNext == [call |-> Len(calls) + 1, piece |-> 1, byte |-> 1]
NextByte == IF outgoing = <<>> THEN FirstOfNext ELSE ByteAt(Len(calls), outgoing)

\* v is sent d bytes after u: in the same piece, or behind the rest of that one.
LengthAt(u) == Sends(calls[u.call])[u.piece]
Earlier(u, v) == u.call < v.call \/ (u.call = v.call /\ u.piece < v.piece)
Apart(u, v, d) ==
    \/ u.call = v.call /\ u.piece = v.piece /\ v.byte = u.byte + d
    \/ Earlier(u, v) /\ LengthAt(u) - u.byte + v.byte <= d

\* The bytes under way are those that were sent, without a gap; the next follows them, unless
\* a reset took the last ones.
StreamInOrder ==
    /\ \A k \in DOMAIN Stream :
        /\ Stream[k].call \in DOMAIN calls /\ Stream[k].piece \in DOMAIN Sends(calls[Stream[k].call])
        /\ Stream[k].byte \in 1 .. LengthAt(Stream[k])
        /\ k < Len(Stream) => Stream[k + 1] = After(Stream[k])
        /\ \A j \in DOMAIN Stream : j < k => Apart(Stream[j], Stream[k], k - j)
        /\ exit # "abrupt" => Apart(Stream[k], NextByte, Len(Stream) + 1 - k)
        /\ exit # "abrupt" /\ k = Len(Stream) => NextByte = After(Stream[k])
    /\ outgoing # <<>> => calls # <<>> /\ RestOf(outgoing, Sends(Last(calls)))

\* The first byte the server has not yet handled, if there is one or will be: it begins the
\* next call, or the options of the last build.
First == IF Stream = <<>> THEN NextByte ELSE Stream[1]
Some == Stream # <<>> \/ exit # "abrupt"
Turn == [call |-> Len(handled) + 1, piece |-> 1, byte |-> 1]
HandledInTurn ==
    /\ \A h \in DOMAIN handled :
        /\ h <= handled[h].call /\ handled[h].call <= Len(calls)
        /\ ~lost => handled[h].call = h
        /\ lost /\ Some => handled[h].call < First.call
    /\ ~lost /\ node = "up" /\ Some => First = Turn \/
        /\ at \in {"header", "reply", "left"} /\ handled # <<>>
        /\ calls[Len(handled)].kind = "build" /\ First = [call |-> Len(handled), piece |-> 2, byte |-> 1]

\* The server has as much of a message as its counters say.
Counted ==
    /\ at = "header" => (total = Len(got) /\ total < HeaderLen) \/ (exit # "none" /\ closing = "fin" /\ toServer = <<>>)
    /\ at \in {"payload", "upload", "reply"} => total = 0
    /\ at = "reply" => got = <<>>

\* A handler that receives has the bytes of its call up to where it wants to go on.
InPayload ==
    at = "payload" =>
        /\ peer = "cn" /\ got # <<>> /\ calls[Len(handled) + 1].kind \in {"write", "blockingWrite", "program"}
        /\ RestOf(want, Sends(calls[Len(handled) + 1])) /\ Len(want) < Len(Sends(calls[Len(handled) + 1]))
        /\ After(Last(got)) = ByteAt(Len(handled) + 1, want)
        /\ \A k \in DOMAIN got : got[k].call = Len(handled) + 1
InUpload ==
    at = "upload" =>
        /\ peer = "dispatcher" /\ Len(got) >= HeaderLen /\ calls[got[1].call].kind = "score"
        /\ \A h \in DOMAIN handled : handled[h].call < got[1].call
        /\ ~lost => \A k \in DOMAIN got : got[k].call = got[1].call /\ ~IsEnd(got[k])

\* Only the dispatcher can miss an END; its clients register first.
Roles ==
    /\ peer = "cn" => ~lost
    /\ peer = "dispatcher" => \A i \in DOMAIN calls : calls[i].kind = "register" <=> i = 1
    /\ lost => handled # <<>> /\ Len(calls) > 1
PositionsMatch == Counted /\ InPayload /\ InUpload /\ Roles

\* Of a reply the client waits for, there is as much under way as it has yet to receive.
Waits(c) == c.kind # "score" /\ Reply(c) > 0
LastWaits == calls # <<>> /\ Waits(Last(calls))
AllAnswered == \A i \in DOMAIN calls : Waits(calls[i]) /\ (i < Len(calls) \/ awaited = 0) /\ ~lost => i <= Len(handled)
OnlyAwaited ==
    /\ awaited > 0 => LastWaits /\ \A u \in DOMAIN toClient : toClient[u] = Len(calls)
    /\ calls = <<>> => toClient = <<>>
Balanced ==
    exit # "abrupt" =>
        /\ LastWaits => awaited = Len(toClient) + owed + (IF Len(handled) < Len(calls) THEN Reply(Last(calls)) ELSE 0)
        /\ ~LastWaits => owed = 0 /\ awaited = 0 /\ (peer = "cn" => toClient = <<>>)
        /\ owed > 0 => ~lost /\ Len(handled) = Len(calls)
RepliesMatch == AllAnswered /\ OnlyAwaited /\ Balanced

\* How the client ended.
EndsMatch ==
    /\ exit = "none" <=> closing = "open"
    /\ exit = "clean" => Idle /\ (lost \/ closing = "fin")

\* The inductive invariant: types, no byte stored at the offset an error leaves behind, and how
\* the positions of both ends and the bytes under way fit together.
WireInv ==
    /\ TypeOK /\ NoStoreAfterError
    /\ StreamInOrder /\ HandledInTurn /\ PositionsMatch /\ RepliesMatch /\ EndsMatch
    /\ OwnBytesOnly /\ NodeOutlivesCleanExit

\* The connection keeps what CallStream promises: calls are handled in order, each once, and a
\* call whose reply the client waits for before the next one is issued.  Only when the end of a
\* score file was missed may the dispatcher skip calls.
Promised == INSTANCE CallStream WITH
    Call <- CallsOf("cn") \cup CallsOf("dispatcher"),
    Waiting <- {c \in CallsOf("cn") \cup CallsOf("dispatcher") : c.kind # "score" /\ Reply(c) > 0},
    issued <- calls,
    handled <- [h \in DOMAIN handled |-> calls[handled[h].call]]
Implements == Promised!Init /\ [][Promised!Next \/ lost']_(Promised!vars)

\* A call that was sent completely is handled, though its client may have ended right after it,
\* unless the client died leaving a reply unread, an END was missed, or the node ended.
SentCompletely(i) == Len(calls) > i \/ (Len(calls) = i /\ outgoing = <<>>)
CallsHandled ==
    \A i \in 1 .. MaxCalls :
        SentCompletely(i) ~> (Len(handled) >= i \/ exit = "abrupt" \/ lost \/ node = "ended")

\* The thread of a client that ended, however it ended, leaves its loop, unless the node ended.
ClosedSessionLeaves == exit # "none" ~> (at = "left" \/ node = "ended")
=============================================================================
