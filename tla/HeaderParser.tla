---------------------------- MODULE HeaderParser ----------------------------
(***************************************************************************)
(* http::headers::parse() on bytes that arrive one at a time, with and     *)
(* without _M_ignore_errors, compared with the grammar of HeaderText.      *)
(***************************************************************************)
EXTENDS HeaderText

CONSTANT Char   \* the bytes that arrive

VARIABLES text,             \* the bytes received
          st,               \* _M_state, the headers added, the result
          ignore_errors     \* _M_ignore_errors

vars == <<text, st, ignore_errors>>

Init ==
  /\ text = <<>>
  /\ st = Fresh
  /\ ignore_errors \in BOOLEAN

Receive(c) ==
  /\ st.result = "more"
  /\ text' = Append(text, c)
  /\ st' = ParseAll(st, text', ignore_errors)
  /\ UNCHANGED ignore_errors

Next == \E c \in Char : Receive(c)

Spec == Init /\ [][Next]_vars

-----------------------------------------------------------------------------
\* Type invariant: the offsets the parser keeps point into the bytes received.
TypeOK ==
  /\ text \in Seq(Char)
  /\ st.state \in 0 .. 6
  /\ st.header \in 0 .. Len(Standard)
  /\ st.size \in {Len(text) - 1, Len(text)} \cup {0}
  /\ st.name + st.namelen <= Len(text)
  /\ {st.value, st.value_end} \subseteq 0 .. Len(text)
  /\ st.result \in {"more", "end", "invalid", "too_large"}

\* A header is complete exactly at the empty line of a block of the grammar,
\* and has then been read as the grammar reads it: the fields with a value, in
\* their groups, names looked up by binary search, lines unfolded and blanks
\* reduced, in the bytes of the text and nothing behind it.
EndsAsTheGrammar ==
  st.result = "end" =>
    /\ st.size = Len(text)
    /\ IsAccepted(text, ignore_errors)
    /\ LET fields == Fields(text)
           Put(store, f) == AddHeader(store, [id |-> f[1], name |-> f[2], value |-> Joined(f[3])])
       IN st.store = FoldLeft(Put, <<>>, fields)

\* The shortest texts that complete a name, a value, a line or a block.
Completion == {<<>>, <<"lf">>, <<"lf", "lf">>, <<":", "lf", "lf">>}

\* A header is refused only when nothing that follows could make a block of
\* it, and is read on as long as something still can.
RefusesInTime ==
  LET CanEnd == \E c \in Completion : IsAccepted(text \o c, ignore_errors)
  IN /\ st.result = "invalid" => ~CanEnd
     /\ st.result \in {"more", "too_large"} /\ ignore_errors => CanEnd

\* The limit on the size of the headers: a block that has not ended there is
\* refused, one that ends with the last byte allowed is not.
StopsAtTheLimit ==
  /\ Len(text) <= HeadersMaxLen
  /\ st.result = "more" => Len(text) < HeadersMaxLen
  /\ st.result = "too_large" => Len(text) = HeadersMaxLen /\ ~IsBlock(text)
=============================================================================
