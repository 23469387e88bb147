----------------------------- MODULE Connection -----------------------------
(***************************************************************************)
(* One HTTP connection on Linux: http::connection::run() over              *)
(* tcp_connection, its socket and edge-triggered epoll, plain or with TLS. *)
(*                                                                         *)
(* A step of the process is one turn of the loop in run(), with the system *)
(* call it makes.  Between the steps the client sends, reads, finishes or  *)
(* resets.  A request and a reply are sequences of units; a buffer holds   *)
(* units where the program's holds bytes.                                  *)
(***************************************************************************)
EXTENDS Integers, SequencesExt

CONSTANTS
  Scripts,       \* what clients ask for: sequences of requests
  MaxRequests,   \* kMaxRequestsPerConnection
  FileLen,       \* length of a file
  Transports,    \* whether the listeners are HTTPS ones
  HelloLen,      \* what the client sends during the handshake
  ReadSize,      \* READ_BUFFER_SIZE
  TxSize,        \* size of the send buffer of the socket
  Expiry,        \* whether 30 seconds without progress may pass
  Endings        \* how the client may end: "finished", "reset"

\* A request as the parsers deliver it: what the server finds for it, HEAD or
\* GET, the ranges it asks for, keep-alive or close, and where it is malformed.
Request ==
  [answer : {"file", "empty", "listing", "error", "unchanged", "unsatisfiable"},
   head : BOOLEAN, ranges : Seq([from : Nat, to : Nat]), keep : BOOLEAN,
   flaw : {"none", "line", "headers"}]

ASSUME ScriptsAssumption ==
  /\ Scripts \subseteq Seq(Request)
  /\ \A s \in Scripts : \A i \in DOMAIN s : s[i].ranges # <<>> => s[i].answer = "file"
ASSUME SizeAssumption ==
  /\ MaxRequests \in Nat \ {0} /\ FileLen \in Nat \ {0}
  /\ ReadSize \in Nat \ {0} /\ TxSize \in Nat \ {0} /\ HelloLen \in Nat \ {0}
ASSUME ChoiceAssumption ==
  Transports \subseteq BOOLEAN /\ Expiry \in BOOLEAN /\ Endings \subseteq {"finished", "reset"}

VARIABLES
  \* the process
  phase,         \* "asleep" in epoll_wait(), "running" run(), "returned" from
                 \* the run() of on_readable(), "closed"
  alsoWritable,  \* on_writable() comes after on_readable()
  conn,          \* the fields of the connection
  \* the kernel
  rx,            \* received, not read yet
  tx,            \* how many units are waiting to be sent
  peer,          \* "open", "finished" or "reset"
  queued,        \* the socket is in epoll's ready list
  nospace,       \* SOCK_NOSPACE: somebody waits for room in the send buffer
  \* the client
  script,        \* its requests
  unsent,        \* what it has still to send
  sent           \* history: all the units written to the socket

processVars == <<phase, alsoWritable, conn>>
kernelVars == <<rx, tx, peer, queued, nospace>>
vars == <<processVars, kernelVars, script, unsent, sent>>

-----------------------------------------------------------------------------
LineParts == <<"method", "version">>
HeaderParts == <<"field", "end">>

\* A malformed request ends where the parser notices.
PartsOf(request) ==
  CASE request.flaw = "none"    -> LineParts \o HeaderParts
    [] request.flaw = "line"    -> <<"method", "bad">>
    [] request.flaw = "headers" -> LineParts \o <<"bad">>

Stream(requests, https) ==
  (IF https THEN [n \in 1 .. HelloLen |-> [req |-> 0, part |-> "hello"]] ELSE <<>>)
  \o FlattenSeq([i \in DOMAIN requests |->
       LET parts == PartsOf(requests[i]) IN [n \in DOMAIN parts |-> [req |-> i, part |-> parts[n]]]])

\* How many requests the client has sent completely.
Asked == IF unsent = <<>> THEN Len(script) ELSE Max({0, unsent[1].req - 1})

P == INSTANCE Pipeline WITH asked <- Asked, said <- sent, open <- phase # "closed"

\* What is answered when no request line could be read: HTTP/0.9, no headers.
Garbage == [answer |-> "error", head |-> FALSE, ranges |-> <<>>, keep |-> FALSE, flaw |-> "line"]

\* The constructor; input is _M_in from _M_inp on.
NewConnection(https) ==
  [https |-> https, state |-> "kHandshaking", readable |-> FALSE, writable |-> FALSE, timerSet |-> FALSE,
   hello |-> IF https THEN HelloLen ELSE 0, input |-> <<>>, line |-> 0,
   req |-> 0, request |-> Garbage, nrequests |-> 0, keepAlive |-> FALSE,
   out |-> <<>>, outp |-> 0, body |-> <<>>, nrange |-> 0, record |-> 0,
   file |-> FALSE, corked |-> FALSE]

\* on_new_connection() has set the timer; the socket is writable.
Init ==
  /\ phase = "asleep"
  /\ alsoWritable = FALSE
  /\ \E https \in Transports : conn = [NewConnection(https) EXCEPT !.timerSet = TRUE]
  /\ rx = <<>>
  /\ tx = 0
  /\ peer = "open"
  /\ queued = TRUE
  /\ nospace = FALSE
  /\ script \in Scripts
  /\ unsent = Stream(script, conn.https)
  /\ sent = <<>>

-----------------------------------------------------------------------------
(* The client and its kernel.                                              *)

ClientSends ==
  /\ peer = "open"
  /\ phase # "closed"
  /\ \E n \in 1 .. Len(unsent) :
       /\ rx' = rx \o SubSeq(unsent, 1, n)
       /\ unsent' = SubSeq(unsent, n + 1, Len(unsent))
  /\ queued' = TRUE
  /\ UNCHANGED <<processVars, tx, peer, nospace, script, sent>>

\* Room in the send buffer is announced only to those who ran out of it.
ClientReads ==
  /\ tx > 0
  /\ peer # "reset"
  /\ \E n \in 0 .. tx - 1 : tx' = n
  /\ queued' = (queued \/ nospace)
  /\ nospace' = FALSE
  /\ UNCHANGED <<processVars, rx, peer, script, unsent, sent>>

ClientEnds ==
  /\ peer = "open"
  /\ phase # "closed"
  /\ peer' \in Endings
  /\ peer' = "finished" => unsent = <<>>
  /\ queued' = TRUE
  /\ UNCHANGED <<processVars, rx, tx, nospace, script, unsent, sent>>

-----------------------------------------------------------------------------
(* The event loop.                                                         *)

InReady == rx # <<>> \/ peer # "open"
OutReady == tx < TxSize \/ peer = "reset"

\* Defect: on_writable() is called only when the socket is not readable.
DeliverOne ==
  /\ phase = "asleep"
  /\ queued
  /\ InReady \/ OutReady
  /\ phase' = "running"
  /\ alsoWritable' = FALSE
  /\ conn' = IF InReady THEN [conn EXCEPT !.readable = TRUE] ELSE [conn EXCEPT !.writable = TRUE]
  /\ queued' = FALSE
  /\ nospace' = (nospace \/ ~OutReady)
  /\ UNCHANGED <<rx, tx, peer, script, unsent, sent>>

\* epoll_wait() reports a socket of its ready list with all that holds of it;
\* process() calls on_readable(), then on_writable().
Deliver ==
  /\ phase = "asleep"
  /\ queued
  /\ InReady \/ OutReady
  /\ phase' = "running"
  /\ alsoWritable' = (InReady /\ OutReady)
  /\ conn' = IF InReady THEN [conn EXCEPT !.readable = TRUE] ELSE [conn EXCEPT !.writable = TRUE]
  /\ queued' = FALSE
  /\ nospace' = (nospace \/ ~OutReady)
  /\ UNCHANGED <<rx, tx, peer, script, unsent, sent>>

\* Nothing to report after all: it leaves the ready list.
Discard ==
  /\ phase = "asleep"
  /\ queued
  /\ ~InReady /\ ~OutReady
  /\ queued' = FALSE
  /\ nospace' = TRUE
  /\ UNCHANGED <<processVars, rx, tx, peer, script, unsent, sent>>

OnWritable ==
  /\ phase = "returned"
  /\ phase' = "running"
  /\ alsoWritable' = FALSE
  /\ conn' = [conn EXCEPT !.writable = TRUE]
  /\ UNCHANGED <<kernelVars, script, unsent, sent>>

\* Defect: on_writable() is called after on_readable() although it returned false.
DropGoesOn ==
  /\ phase' = "closed"
  /\ UNCHANGED alsoWritable
  /\ conn' = NewConnection(conn.https)

\* free() and close(): by run() returning false and by on_timer().
Drop ==
  /\ phase' = "closed"
  /\ alsoWritable' = FALSE
  /\ conn' = NewConnection(conn.https)

\* on_timer()
Expire ==
  /\ Expiry
  /\ phase = "asleep"
  /\ conn.timerSet
  /\ Drop
  /\ UNCHANGED <<kernelVars, script, unsent, sent>>

-----------------------------------------------------------------------------
(* run(): reading.                                                         *)

Running(states) == phase = "running" /\ conn.state \in states

\* Another turn of the loop with the connection as c; return true with it as c.
Continue(c) == conn' = c /\ UNCHANGED <<phase, alsoWritable>>
Return(c) ==
  /\ conn' = c
  /\ phase' = IF alsoWritable THEN "returned" ELSE "asleep"
  /\ UNCHANGED alsoWritable

\* kHandshaking: the handshake takes what the client has sent for it.
Handshake ==
  LET n == Min({conn.hello, Len(rx)})
      c == [conn EXCEPT !.hello = @ - n]
  IN /\ Running({"kHandshaking"})
     /\ rx' = SubSeq(rx, n + 1, Len(rx))
     /\ \/ /\ c.hello = 0
           /\ Continue([c EXCEPT !.state = "kReadingRequestLine",
                                 !.timerSet = IF conn.https THEN FALSE ELSE @])
        \/ /\ c.hello > 0 /\ peer = "open"
           /\ Return([c EXCEPT !.timerSet = TRUE, !.readable = FALSE])
        \/ /\ c.hello > 0 /\ peer # "open"
           /\ Drop
     /\ UNCHANGED <<tx, peer, queued, nospace, script, unsent, sent>>

\* Whether this turn of the loop reads from the socket.
NeedsInput ==
  /\ Running({"kReadingRequestLine", "kAfterRequestLine", "kReadingHeaders"})
  /\ conn.state = "kReadingHeaders" \/ conn.input = <<>>

\* Where a connection waits that gets no input.
Waiting(c) == [c EXCEPT !.state = IF @ = "kAfterRequestLine" THEN "kReadingHeaders" ELSE @]

NotReadable ==
  /\ NeedsInput
  /\ ~conn.readable
  /\ Return(Waiting(conn))
  /\ UNCHANGED <<kernelVars, script, unsent, sent>>

\* recv() or SSL_read() has nothing: EAGAIN, want_read.
ReadsNothing ==
  /\ NeedsInput
  /\ conn.readable
  /\ ~InReady
  /\ Return(Waiting([conn EXCEPT !.timerSet = TRUE, !.readable = FALSE]))
  /\ UNCHANGED <<kernelVars, script, unsent, sent>>

\* How much one read() returns.
Count == Min({Len(rx), ReadSize})

\* recv() fails at the end of the stream.  ssl_socket::read() calls SSL_read()
\* until its buffer is full: an end that follows the data fails it as well.
ReadFails ==
  /\ NeedsInput
  /\ conn.readable
  /\ peer # "open"
  /\ IF conn.https THEN Count < ReadSize ELSE Count = 0
  /\ Drop
  /\ UNCHANGED <<kernelVars, script, unsent, sent>>

\* The connection once it has the input for this turn.
Received ==
  IF ~NeedsInput THEN conn
  ELSE LET drained == conn.https /\ Count < ReadSize IN
       [conn EXCEPT !.input = @ \o SubSeq(rx, 1, Count),
                    !.timerSet = drained, !.readable = ~drained]

Reads ==
  \/ /\ ~NeedsInput
     /\ UNCHANGED rx
  \/ /\ NeedsInput
     /\ conn.readable
     /\ Count > 0
     /\ ~(conn.https /\ Count < ReadSize /\ peer # "open")
     /\ rx' = SubSeq(rx, Count + 1, Len(rx))

\* How many leading units of a buffer are what a parser expects next.
Matching(buffer, parts) ==
  Max({n \in 0 .. Min({Len(buffer), Len(parts)}) : \A j \in 1 .. n : buffer[j].part = parts[j]})

Consumed(c, n) == [c EXCEPT !.input = SubSeq(@, n + 1, Len(@))]

\* kReadingRequestLine: the line may come in pieces; each is consumed.  A line
\* that is refused leaves the offending unit, and the method and version read
\* before it.
ReadingRequestLine ==
  LET c == Received
      parts == SubSeq(LineParts, c.line + 1, 2)
      n == Matching(c.input, parts)
      d == Consumed(c, n)
  IN /\ Running({"kReadingRequestLine"})
     /\ Reads
     /\ \/ /\ n = Len(parts)
           /\ Continue([d EXCEPT !.state = "kAfterRequestLine", !.line = 2,
                                 !.req = c.input[1].req, !.request = script[c.input[1].req]])
        \/ /\ n < Len(parts) /\ n = Len(c.input)
           /\ Continue([d EXCEPT !.line = @ + n])
        \/ /\ n < Len(parts) /\ n < Len(c.input)
           /\ LET i == c.input[n + 1].req IN
              Continue([d EXCEPT !.state = "kPreparingErrorPage", !.req = i,
                                 !.request = IF c.line + n = 0 THEN Garbage ELSE script[i]])
     /\ UNCHANGED <<tx, peer, queued, nospace, script, unsent, sent>>

\* kAfterRequestLine and kReadingHeaders: the parser resumes where it stopped,
\* but the headers are consumed only when they are complete.
ReadingHeaders ==
  LET c == Received
      n == Matching(c.input, HeaderParts)
  IN /\ Running({"kAfterRequestLine", "kReadingHeaders"})
     /\ Reads
     /\ \/ /\ n = 2
           /\ Continue([Consumed(c, 2) EXCEPT !.state = "kProcessingRequest"])
        \/ /\ n < 2 /\ n = Len(c.input)
           /\ Continue([c EXCEPT !.state = "kReadingHeaders"])
        \/ /\ n < 2 /\ n < Len(c.input)
           /\ Continue([c EXCEPT !.state = "kPreparingErrorPage"])
     /\ UNCHANGED <<tx, peer, queued, nospace, script, unsent, sent>>

-----------------------------------------------------------------------------
(* run(): the reply.  Its units are those of Pipeline.                     *)

\* Defect: the last request of a connection is announced one too late.
AddCommonHeadersLate(c) ==
  [c EXCEPT !.nrequests = @ + 1,
            !.keepAlive = (c.nrequests # MaxRequests /\ c.request.keep)]

\* add_common_headers()
AddCommonHeaders(c) ==
  [c EXCEPT !.nrequests = @ + 1,
            !.keepAlive = (c.nrequests + 1 # MaxRequests /\ c.request.keep)]

\* The headers of the reply, and what goes with them, behind what is in _M_out.
Prepared(c, more, body, state) ==
  LET d == AddCommonHeaders(c) IN
  [d EXCEPT !.out = @ \o P!Opening(d.req, d.keepAlive) \o more, !.body = body, !.state = state]

\* kProcessingRequest: process_request() finds out what the answer is.
ProcessRequest ==
  LET answer == conn.request.answer
      get == ~conn.request.head
      opened == [conn EXCEPT !.file = get /\ answer \in {"file", "unchanged", "unsatisfiable"}]
      several == get /\ Len(conn.request.ranges) > 1
  IN /\ Running({"kProcessingRequest"})
     /\ \/ /\ answer \in {"error", "unchanged", "unsatisfiable"}
           /\ Continue([opened EXCEPT !.state = "kPreparingErrorPage"])
        \/ /\ answer = "listing"
           /\ Continue(Prepared(conn, <<>>, P!Page(conn.req),
                                IF get THEN "kSendingTwoBuffers" ELSE "kSendingHeaders"))
        \/ /\ answer \in {"file", "empty"}
           /\ Continue(Prepared([opened EXCEPT !.corked = opened.file],
                                IF several THEN P!Part(conn.req, 1) ELSE <<>>,
                                <<>>, "kSendingHeaders"))
     /\ UNCHANGED <<kernelVars, script, unsent, sent>>

\* kPreparingErrorPage: the page of 304 is empty.
PreparingErrorPage ==
  /\ Running({"kPreparingErrorPage"})
  /\ Continue(Prepared(conn, <<>>,
                       IF conn.request.answer = "unchanged" THEN <<>> ELSE P!Page(conn.req),
                       IF conn.request.head THEN "kSendingHeaders" ELSE "kSendingTwoBuffers"))
  /\ UNCHANGED <<kernelVars, script, unsent, sent>>

SendingStates ==
  {"kSendingTwoBuffers", "kSendingHeaders", "kSendingBody", "kSendingPartHeader", "kSendingMultipartFooter"}

NotWritable ==
  /\ Running(SendingStates)
  /\ ~conn.writable
  /\ Return(conn)
  /\ UNCHANGED <<kernelVars, script, unsent, sent>>

SendFails ==
  /\ Running(SendingStates)
  /\ conn.writable
  /\ peer = "reset"
  /\ Drop
  /\ UNCHANGED <<kernelVars, script, unsent, sent>>

\* What becomes of units handed to the socket.  SSL_write() reports a record
\* only when all of it has gone ("whole"); what has gone before is remembered.
Write(units, whole) ==
  LET done == IF whole THEN conn.record ELSE 0
      n == Min({Len(units) - done, TxSize - tx})
      blocked == n < Len(units) - done
  IN [pushed  |-> SubSeq(units, done + 1, done + n),
      blocked |-> blocked,
      count   |-> IF ~whole THEN n ELSE IF blocked THEN 0 ELSE Len(units),
      record  |-> IF whole /\ blocked THEN done + n ELSE 0]

\* Defect: a write that could not be completed sets no timer.
AfterWithoutTimer(w) ==
  [conn EXCEPT !.outp = @ + w.count, !.record = w.record,
               !.writable = ~w.blocked, !.timerSet = FALSE]

\* The connection after a write.
After(w) ==
  [conn EXCEPT !.outp = @ + w.count, !.record = w.record,
               !.writable = ~w.blocked, !.timerSet = w.blocked]

Sends(state, w) ==
  /\ Running({state})
  /\ conn.writable
  /\ peer # "reset"
  /\ sent' = sent \o w.pushed
  /\ tx' = tx + Len(w.pushed)
  /\ nospace' = (nospace \/ w.blocked)
  /\ UNCHANGED <<rx, peer, queued, script, unsent>>

Rest(units) == SubSeq(units, conn.outp + 1, Len(units))

SendTwoBuffers ==
  LET units == conn.out \o conn.body
      w == Write(Rest(units), conn.https)
      c == After(w)
  IN /\ Sends("kSendingTwoBuffers", w)
     /\ Continue([c EXCEPT !.state = IF c.outp = Len(units) THEN "kRequestCompleted" ELSE @])

FirstByte(c) == IF c.request.ranges = <<>> THEN 0 ELSE c.request.ranges[c.nrange + 1].from
LastByte(c) == IF c.request.ranges = <<>> THEN FileLen - 1 ELSE c.request.ranges[c.nrange + 1].to

SendHeaders ==
  LET w == Write(Rest(conn.out), conn.https)
      c == After(w)
      bodiless == conn.request.head \/ conn.request.answer = "empty"
  IN /\ Sends("kSendingHeaders", w)
     /\ \/ /\ c.outp < Len(conn.out)
           /\ Continue(c)
        \/ /\ c.outp = Len(conn.out) /\ bodiless
           /\ Continue([c EXCEPT !.state = "kRequestCompleted"])
        \/ /\ c.outp = Len(conn.out) /\ ~bodiless
           /\ Continue([c EXCEPT !.state = "kSendingBody", !.outp = FirstByte(c)])

SendBody ==
  LET w == Write(P!Bytes(conn.req, conn.outp, LastByte(conn)), FALSE)
      c == After(w)
      complete == c.outp = LastByte(conn) + 1
      nranges == Len(conn.request.ranges)
      next == [c EXCEPT !.outp = 0, !.nrange = @ + 1]
  IN /\ Sends("kSendingBody", w)
     /\ \/ /\ ~complete
           /\ Continue(c)
        \/ /\ complete /\ nranges <= 1
           /\ Continue([c EXCEPT !.corked = FALSE, !.state = "kRequestCompleted"])
        \/ /\ complete /\ nranges > 1 /\ next.nrange = nranges
           /\ Continue([next EXCEPT !.out = P!Footer(conn.req), !.state = "kSendingMultipartFooter"])
        \/ /\ complete /\ nranges > 1 /\ next.nrange < nranges
           /\ Continue([next EXCEPT !.out = P!Part(conn.req, next.nrange + 1),
                                    !.state = "kSendingPartHeader"])

SendPartHeader ==
  LET w == Write(Rest(conn.out), conn.https)
      c == After(w)
  IN /\ Sends("kSendingPartHeader", w)
     /\ Continue(IF c.outp < Len(conn.out) THEN c
                 ELSE [c EXCEPT !.state = "kSendingBody", !.outp = FirstByte(c)])

SendMultipartFooter ==
  LET w == Write(Rest(conn.out), conn.https)
      c == After(w)
  IN /\ Sends("kSendingMultipartFooter", w)
     /\ Continue(IF c.outp < Len(conn.out) THEN c
                 ELSE [c EXCEPT !.state = "kRequestCompleted", !.corked = FALSE])

\* Defect: the output buffer is left as it is.
ResetKeepsOutput(c) ==
  [c EXCEPT !.state = "kReadingRequestLine", !.outp = 0, !.body = <<>>,
            !.nrange = 0, !.line = 0, !.keepAlive = FALSE, !.file = FALSE]

\* Defect: the input buffer is cleared although it holds the next request.
ResetDropsInput(c) ==
  [c EXCEPT !.state = "kReadingRequestLine", !.out = <<>>, !.outp = 0, !.body = <<>>,
            !.nrange = 0, !.line = 0, !.keepAlive = FALSE, !.file = FALSE, !.input = <<>>]

\* reset(): ready for the next request; what it has read of it stays.
Reset(c) ==
  [c EXCEPT !.state = "kReadingRequestLine", !.out = <<>>, !.outp = 0, !.body = <<>>,
            !.nrange = 0, !.line = 0, !.keepAlive = FALSE, !.file = FALSE]

RequestCompleted ==
  /\ Running({"kRequestCompleted"})
  /\ \/ ~conn.keepAlive /\ Drop
     \/ conn.keepAlive /\ Continue(Reset(conn))
  /\ UNCHANGED <<kernelVars, script, unsent, sent>>

-----------------------------------------------------------------------------
Reading == NotReadable \/ ReadsNothing \/ ReadFails \/ ReadingRequestLine \/ ReadingHeaders

Replying ==
  \/ ProcessRequest \/ PreparingErrorPage \/ NotWritable \/ SendFails
  \/ SendTwoBuffers \/ SendHeaders \/ SendBody \/ SendPartHeader \/ SendMultipartFooter
  \/ RequestCompleted

Run == Handshake \/ Reading \/ Replying
EventLoop == Deliver \/ Discard \/ OnWritable
Client == ClientSends \/ ClientReads \/ ClientEnds

\* Once the connection is closed only the client may go on.
Terminated == phase = "closed" /\ UNCHANGED vars

Next == Run \/ EventLoop \/ Expire \/ Client \/ Terminated

Spec == Init /\ [][Next]_vars

\* The process runs while there is something to do, the client sends what it
\* has to send and reads what it is sent.
FairSpec == Spec /\ WF_vars(Run \/ EventLoop) /\ WF_vars(ClientSends) /\ WF_vars(ClientReads)

-----------------------------------------------------------------------------
States == SendingStates \cup
  {"kHandshaking", "kReadingRequestLine", "kAfterRequestLine", "kReadingHeaders",
   "kProcessingRequest", "kPreparingErrorPage", "kRequestCompleted"}

InputUnit == [req : Nat, part : {"hello", "method", "version", "field", "end", "bad"}]
OutputUnit ==
  [req : Nat, item : {"keep-alive", "close", "byte", "part", "footer", "page"}, at : Nat]

\* The types of the members of a connection.
Fields ==
  [https : Transports, state : States, readable : BOOLEAN, writable : BOOLEAN, timerSet : BOOLEAN,
   hello : 0 .. HelloLen, input : Seq(InputUnit), line : 0 .. Len(LineParts),
   req : 0 .. Len(script), request : Request, nrequests : 0 .. MaxRequests,
   keepAlive : BOOLEAN, out : Seq(OutputUnit), outp : Nat, body : Seq(OutputUnit),
   nrange : Nat, record : Nat, file : BOOLEAN, corked : BOOLEAN]

TypeOK ==
  /\ phase \in {"asleep", "running", "returned", "closed"}
  /\ alsoWritable \in BOOLEAN /\ (alsoWritable => phase \in {"running", "returned"})
  /\ conn \in Fields
  /\ rx \in Seq(InputUnit)
  /\ tx \in 0 .. TxSize
  /\ peer \in {"open"} \cup Endings
  /\ queued \in BOOLEAN
  /\ nospace \in BOOLEAN
  /\ script \in Scripts
  /\ unsent \in Seq(InputUnit)
  /\ sent \in Seq(OutputUnit)

\* Whatever the interleaving of the client, the event loop and the partial
\* writes, the client gets the replies to its requests whole, once, in order,
\* none before its request and none after "Connection: close".
Implements == P!Spec

\* run() hangs up on a client that has not gone away only when it has handed
\* over the replies to all the requests it was sent, and, while the client is
\* still sending, only after having announced "Connection: close".  (Over TLS,
\* SSL_read() may meet the end of the stream behind a request it has read, and
\* the request is lost: a client that has finished there is left out.)
CloseIsDeserved ==
  [][(phase = "running" /\ phase' = "closed" /\ peer # "reset"
        /\ ~(conn.https /\ peer = "finished")) =>
       /\ sent = P!Replies(Asked)
       /\ peer = "open" => \E i \in 1 .. Asked : ~P!Stays(i)]_vars

\* Nothing of a request is left for the next one: while a request is read there
\* is no output, no file is open, the socket is not corked, and the offsets into
\* the output, the ranges and the TLS record are at their start.
CleanBetweenRequests ==
  conn.state \in {"kReadingRequestLine", "kAfterRequestLine", "kReadingHeaders"} =>
    /\ conn.out = <<>> /\ conn.body = <<>> /\ conn.outp = 0
    /\ conn.nrange = 0 /\ conn.record = 0
    /\ ~conn.file /\ ~conn.corked

AwaitsOutput == conn.state \in SendingStates
Idle == phase = "asleep" /\ ~queued

\* No edge is lost: a connection that sleeps without an event on its way really
\* has nothing to do.  It waits for input when there is none, or for room in
\* a full send buffer, of whose draining it will be told.
NoLostEdge ==
  Idle => IF AwaitsOutput THEN tx = TxSize /\ nospace /\ peer # "reset"
                          ELSE rx = <<>> /\ peer = "open"

\* A connection that sleeps has its idle timer running, so a client that stops
\* reading or sending does not hold it for ever (MAX_IDLE_TIME).
Armed == Idle => conn.timerSet

\* Over TLS that is not so; without, no order of reads and writes loses it.
ArmedIfPlain == ~conn.https => Armed

Heads == Cardinality({n \in DOMAIN sent : sent[n].item \in {"keep-alive", "close"}})

\* A client that pipelines its requests counts the replies: there is never one
\* more than it has sent requests.
OneReplyPerRequest == Heads <= Asked

\* A client that sends all its requests and reads gets all the replies; over
\* TLS, unless it has finished before they were read.
AllAnswered ==
  unsent = <<>> ~>
    \/ sent = P!Replies(Len(script)) /\ tx = 0
    \/ conn.https /\ peer = "finished"
=============================================================================
