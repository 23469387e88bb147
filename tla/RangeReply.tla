----------------------------- MODULE RangeReply -----------------------------
(***************************************************************************)
(* The reply with a file, or with ranges of it, counted in bytes: what     *)
(* Content-Length announces, and what is sent by write() and sendfile() on *)
(* an edge-triggered socket, while the file may be cut short on disk.      *)
(***************************************************************************)
EXTENDS Integers, Sequences

CONSTANTS
  Requests,       \* requests: head, filesize, ranges (pieces of the file)
  HeadLen,        \* bytes of the status line and the headers
  MimeTypeLen,    \* _M_mime_type_len
  BoundaryLen     \* BOUNDARY_LEN

\* What get_ranges() leaves of a Range header: pieces within the file.
Pieces(size) == {piece \in [from : 0 .. size - 1, to : 0 .. size - 1] : piece.from <= piece.to}

ASSUME RequestsAssumption ==
  \A asked \in Requests :
    /\ asked.head \in BOOLEAN
    /\ asked.filesize \in Nat
    /\ asked.ranges \in Seq(Pieces(asked.filesize))
ASSUME LengthsAssumption == HeadLen \in Nat \ {0} /\ MimeTypeLen \in Nat /\ BoundaryLen \in Nat

VARIABLES
  request,    \* the request
  disk,       \* the size of the file now
  phase,      \* _M_state, and "closed"
  out,        \* _M_out.length()
  outp,       \* _M_outp
  nrange,     \* _M_nrange
  writable,   \* _M_writable
  timer,      \* whether the idle timer is set
  full,       \* whether the kernel's send buffer is full
  sent        \* bytes sent

vars == <<request, disk, phase, out, outp, nrange, writable, timer, full, sent>>

Smaller(a, b) == IF a < b THEN a ELSE b

-----------------------------------------------------------------------------
\* Defect: number::length() that stops dividing one step too soon.
LengthOfTen(n) ==
  LET len[m \in 0 .. n] == IF m > 10 THEN 1 + len[m \div 10] ELSE 1 IN len[n]

\* number::length() of a size or an offset.
LengthOf(n) ==
  LET len[m \in 0 .. n] == IF m > 9 THEN 1 + len[m \div 10] ELSE 1 IN len[n]

\* The decimals that "%lld" writes.
Decimals(n) ==
  LET ten[d \in 0 .. n + 1] == IF d = 0 THEN 1 ELSE 10 * ten[d - 1]
  IN CHOOSE d \in 1 .. n + 1 : ten[d] > n /\ (d = 1 \/ ten[d - 1] <= n)

\* compute_content_length() of more than one range, which it adds one by one.
PartsLength(filesize, ranges) ==
  LET Parted(range) ==
        (2 + 2 + BoundaryLen + 2 + 14 + MimeTypeLen + 2 + 21 + LengthOf(range.from) + 1
           + LengthOf(range.to) + 1 + LengthOf(filesize) + 2 + 2)
        + (range.to - range.from + 1)
      sum[k \in 0 .. Len(ranges)] ==
        IF k = 0 THEN 2 + 2 + BoundaryLen + 2 + 2 ELSE sum[k - 1] + Parted(ranges[k])
  IN sum[Len(ranges)]

\* compute_content_length()
ContentLength(filesize, ranges) ==
  CASE Len(ranges) = 0 -> filesize
    [] Len(ranges) = 1 -> ranges[1].to - ranges[1].from + 1
    [] OTHER -> PartsLength(filesize, ranges)

\* build_part_header(): CRLF "--" boundary CRLF, "Content-Type: " type CRLF,
\* "Content-Range: bytes " from "-" to "/" size CRLF CRLF.
PartHeaderLen(filesize, range) ==
  (4 + BoundaryLen + 2) + (14 + MimeTypeLen + 2)
  + (21 + Decimals(range.from) + 1 + Decimals(range.to) + 1 + Decimals(filesize) + 4)

\* CRLF "--" boundary "--" CRLF
FooterLen == 4 + BoundaryLen + 4

-----------------------------------------------------------------------------
ranges == request.ranges
filesize == request.filesize
multipart == Len(ranges) > 1

Init ==
  /\ request \in Requests
  /\ disk = request.filesize
  /\ phase = "processing" /\ out = 0 /\ outp = 0 /\ nrange = 0
  /\ writable = TRUE /\ timer = FALSE /\ full \in BOOLEAN
  /\ sent = 0

\* process_request(), from the ranges on.
ProcessRequest ==
  /\ phase = "processing"
  /\ out' = HeadLen + (IF multipart /\ ~request.head THEN PartHeaderLen(filesize, ranges[1]) ELSE 0)
  /\ phase' = "headers"
  /\ UNCHANGED <<request, disk, outp, nrange, writable, timer, full, sent>>

\* The numbers of bytes the kernel may take: some, unless its buffer is full.
Taken(numbers) == IF full THEN {0} ELSE numbers

\* write(): what the kernel takes, and the timer while it takes not all.
Write ==
  /\ phase \in {"headers", "part", "footer"} /\ writable /\ outp < out
  /\ LET left == out - outp
     IN \E n \in Taken({1, left - left \div 2, left}) :
          /\ outp' = outp + n
          /\ sent' = sent + n
          /\ timer' = (n < left) /\ writable' = (n = left)
          /\ full' \in IF n = 0 THEN {full} ELSE {TRUE, n < left}
  /\ UNCHANGED <<request, disk, phase, out, nrange>>

BufferSent == phase \in {"headers", "part", "footer"} /\ out > 0 /\ outp = out

HeadersSent ==
  /\ phase = "headers" /\ BufferSent
  /\ IF request.head \/ filesize = 0
       THEN phase' = "completed" /\ UNCHANGED outp
       ELSE /\ phase' = "body"
            /\ outp' = IF ranges = <<>> THEN 0 ELSE ranges[1].from
  /\ UNCHANGED <<request, disk, out, nrange, writable, timer, full, sent>>

PartHeaderSent ==
  /\ phase = "part" /\ BufferSent
  /\ outp' = ranges[nrange + 1].from
  /\ phase' = "body"
  /\ UNCHANGED <<request, disk, out, nrange, writable, timer, full, sent>>

FooterSent ==
  /\ phase = "footer" /\ BufferSent
  /\ phase' = "completed"
  /\ UNCHANGED <<request, disk, out, outp, nrange, writable, timer, full, sent>>

\* What has been sent of a range: the next part, the footer or the end.
RangeSent ==
  IF ~multipart THEN phase' = "completed" /\ UNCHANGED <<out, nrange>>
  ELSE /\ nrange' = nrange + 1
       /\ IF nrange + 1 = Len(ranges)
            THEN phase' = "footer" /\ out' = FooterLen
            ELSE phase' = "part" /\ out' = PartHeaderLen(filesize, ranges[nrange + 2])

EndOfBody == IF ranges = <<>> THEN filesize ELSE ranges[nrange + 1].to + 1

\* Defect: unsecure_sendfile() that waits for the socket without a timer.
SentUntimed(n, count) ==
  /\ writable' = (n = count)
  /\ timer' = FALSE

\* unsecure_sendfile(): less than asked for is taken for a full socket.
SentOf(n, count) ==
  /\ writable' = (n = count)
  /\ timer' = (n < count)

\* sendfile() sends what the file still has, as far as the kernel takes it.
SendFile ==
  /\ phase = "body" /\ writable
  /\ LET count == EndOfBody - outp
         there == IF disk > outp THEN Smaller(count, disk - outp) ELSE 0
     IN \E n \in Taken(IF there = 0 THEN {0} ELSE 1 .. there) :
          /\ SentOf(n, count)
          /\ full' \in IF n = 0 THEN {full} ELSE {TRUE, n < there}
          /\ sent' = sent + n
          /\ IF n = count
               THEN RangeSent /\ outp' = IF multipart THEN 0 ELSE outp + n
               ELSE outp' = outp + n /\ UNCHANGED <<phase, out, nrange>>
  /\ UNCHANGED <<request, disk>>

\* The peer reads: epoll_wait() reports the edge.
Drain ==
  /\ full /\ phase # "closed"
  /\ full' = FALSE /\ writable' = TRUE
  /\ UNCHANGED <<request, disk, phase, out, outp, nrange, timer, sent>>

\* The idle timer expires: the connection is closed.
Idle ==
  /\ timer /\ ~writable
  /\ phase' = "closed" /\ timer' = FALSE
  /\ UNCHANGED <<request, disk, out, outp, nrange, writable, full, sent>>

\* Another program shortens the file.
Shrink ==
  /\ phase \notin {"completed", "closed"}
  /\ disk' \in 0 .. disk - 1
  /\ UNCHANGED <<request, phase, out, outp, nrange, writable, timer, full, sent>>

Run == ProcessRequest \/ Write \/ HeadersSent \/ PartHeaderSent \/ FooterSent \/ SendFile

Next == Run \/ Drain \/ Idle \/ Shrink

\* The event loop runs a connection that can go on, and its timers.
Spec == Init /\ [][Next]_vars /\ WF_vars(Run) /\ WF_vars(Idle)

-----------------------------------------------------------------------------
\* Type invariant.
TypeOK ==
  /\ request \in Requests
  /\ disk \in 0 .. filesize
  /\ phase \in {"processing", "headers", "body", "part", "footer", "completed", "closed"}
  /\ phase \in {"headers", "part", "footer"} => outp \in 0 .. out
  /\ phase = "body" => outp \in 0 .. EndOfBody - 1
  /\ nrange \in 0 .. Len(ranges)
  /\ {writable, timer, full} \subseteq BOOLEAN

\* Content-Length is the sum of lengths that stand in compute_content_length()
\* as numbers and in build_part_header() as text.  The bytes of a body that is
\* complete are exactly as many, whatever the sizes of the numbers, the partial
\* writes, and a file that has become shorter: the next reply of the connection
\* starts where the client expects it.
BodyAsAnnounced ==
  phase = "completed" =>
    sent = HeadLen + IF request.head THEN 0 ELSE ContentLength(filesize, ranges)

\* A reply ends or the connection is closed, although sendfile() of a file cut
\* short sends nothing and is taken for a full socket that no event follows.
ReplyEnds == <>(phase \in {"completed", "closed"})
=============================================================================
