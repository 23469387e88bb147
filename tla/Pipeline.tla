------------------------------ MODULE Pipeline ------------------------------
(***************************************************************************)
(* What a client may rely on: the replies to the requests of a connection  *)
(* come whole, in the order of the requests and one for each, none before  *)
(* its request is complete and none after a reply that says                *)
(* "Connection: close".  The server may hang up at any time.               *)
(*                                                                         *)
(* A reply is a sequence of units: its headers, the bytes of a file by     *)
(* their offsets, the headers of a part, a footer, a page.                 *)
(***************************************************************************)
EXTENDS Integers, SequencesExt

CONSTANTS
  Scripts,       \* what clients ask for: sequences of requests
  MaxRequests,   \* kMaxRequestsPerConnection
  FileLen        \* length of a file

VARIABLES
  script,  \* the requests of this client
  asked,   \* how many of them have been sent completely
  said,    \* the units of the replies so far
  open     \* whether the server has not hung up

vars == <<script, asked, said, open>>

Bytes(i, from, to) == [n \in 1 .. to - from + 1 |-> [req |-> i, item |-> "byte", at |-> from + n - 1]]
Part(i, n) == <<[req |-> i, item |-> "part", at |-> n]>>
Footer(i) == <<[req |-> i, item |-> "footer", at |-> 0]>>
Page(i) == <<[req |-> i, item |-> "page", at |-> 0]>>
Opening(i, keep) == <<[req |-> i, item |-> IF keep THEN "keep-alive" ELSE "close", at |-> 0]>>

\* The parts of a multipart reply.
Parts(i) ==
  LET ranges == script[i].ranges IN
  FlattenSeq([n \in DOMAIN ranges |-> Part(i, n) \o Bytes(i, ranges[n].from, ranges[n].to)])

Body(i) ==
  LET r == script[i] IN
  CASE r.head \/ r.answer \in {"empty", "unchanged"}        -> <<>>
    [] ~r.head /\ r.answer \in {"listing", "error", "unsatisfiable"} -> Page(i)
    [] ~r.head /\ r.answer = "file" ->
         IF Len(r.ranges) = 0 THEN Bytes(i, 0, FileLen - 1)
         ELSE IF Len(r.ranges) = 1 THEN Bytes(i, r.ranges[1].from, r.ranges[1].to)
         ELSE Parts(i) \o Footer(i)

Stays(i) == script[i].keep /\ i # MaxRequests
Reply(i) == Opening(i, Stays(i)) \o Body(i)

\* Everything there is to say to the first n requests.
Replies(n) == FlattenSeq([i \in 1 .. n |-> IF \A j \in 1 .. i - 1 : Stays(j) THEN Reply(i) ELSE <<>>])

Init ==
  /\ script \in Scripts
  /\ asked = 0
  /\ said = <<>>
  /\ open = TRUE

Ask ==
  /\ asked' \in asked + 1 .. Len(script)
  /\ UNCHANGED <<script, said, open>>

Say ==
  /\ open
  /\ \E n \in Len(said) + 1 .. Len(Replies(asked)) : said' = SubSeq(Replies(asked), 1, n)
  /\ UNCHANGED <<script, asked, open>>

HangUp ==
  /\ open' = FALSE
  /\ UNCHANGED <<script, asked, said>>

Next == Ask \/ Say \/ HangUp

Spec == Init /\ [][Next]_vars
=============================================================================
