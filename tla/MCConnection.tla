---------------------------- MODULE MCConnection ----------------------------
(***************************************************************************)
(* Small clients for the connection.                                       *)
(***************************************************************************)
EXTENDS Connection

R(from, to) == [from |-> from, to |-> to]
Ask(answer, head, ranges, keep, flaw) ==
  [answer |-> answer, head |-> head, ranges |-> ranges, keep |-> keep, flaw |-> flaw]

Get(answer) == Ask(answer, FALSE, <<>>, TRUE, "none")
GetAndClose(answer) == Ask(answer, FALSE, <<>>, FALSE, "none")
HeadOf(answer) == Ask(answer, TRUE, <<>>, TRUE, "none")
GetRanges(ranges) == Ask("file", FALSE, ranges, TRUE, "none")
BadLine == Ask("error", FALSE, <<>>, FALSE, "line")
BadHeaders(keep) == Ask("error", FALSE, <<>>, keep, "headers")

\* Every kind of answer, alone, before and after others.
AllScripts ==
  {<<Get("file"), GetAndClose("listing")>>,
   <<HeadOf("file"), Get("unchanged"), Get("file")>>,
   <<GetRanges(<<R(0, 0), R(1, 2)>>), Get("empty")>>,
   <<GetRanges(<<R(1, 2)>>), Get("unsatisfiable")>>,
   <<HeadOf("listing"), Get("error"), Get("file")>>,
   <<HeadOf("error"), BadLine>>,
   <<Get("file"), BadHeaders(FALSE)>>}

\* One short and one long reply.
ShortScripts == {<<Get("error"), Get("file")>>, <<GetRanges(<<R(0, 0), R(1, 1)>>), Get("empty")>>}

\* Malformed headers on a connection that would stay.
MalformedScripts == {<<BadHeaders(TRUE)>>, <<Get("error"), BadHeaders(TRUE)>>}
=============================================================================
