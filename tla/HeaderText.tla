----------------------------- MODULE HeaderText -----------------------------
(***************************************************************************)
(* The grammar of a block of headers, stated without the automaton: lines, *)
(* fields, words.  What http::headers is compared with.                    *)
(***************************************************************************)
EXTENDS Headers, Positions, FiniteSets

\* The words of a value, blanks and line ends between them left out, joined
\* by one space.
Words(v) ==
  LET Blank(k) == v[k] \in {"sp", "cr", "lf"}
      starts == {k \in 1 .. Len(v) : ~Blank(k) /\ (k = 1 \/ Blank(k - 1))}
      End(k) == Max({e \in k .. Len(v) : \A i \in k .. e : ~Blank(i)})
      at == Ascending(starts)
  IN [n \in 1 .. Len(at) |-> SubSeq(v, at[n], End(at[n]))]

Joined(words) ==
  FlattenSeq([n \in 1 .. Len(words) |-> IF n = 1 THEN words[n] ELSE <<"sp">> \o words[n]])

\* The lines of a text that ends with one, a "cr" before the line end dropped.
Lines(text) ==
  LET ends == Ascending({k \in 1 .. Len(text) : text[k] = "lf"})
      From(n) == IF n = 1 THEN 1 ELSE ends[n - 1] + 1
      Cut(l) == IF l # <<>> /\ Last(l) = "cr" THEN Front(l) ELSE l
  IN [n \in 1 .. Len(ends) |-> Cut(SubSeq(text, From(n), ends[n] - 1))]

IsFolded(line) == line # <<>> /\ line[1] = "sp"

\* Where the colon of a field is: no element when the line is not one.
Colon(line) ==
  {k \in 2 .. MaxNameLen + 1 :
     k <= Len(line) /\ line[k] = ":" /\ \A i \in 1 .. k - 1 : line[i] \in Letters}

\* A text is a block of headers: fields and folded lines, then an empty line.
IsBlock(text) ==
  LET lines == Lines(text)
      last == Len(lines)
  IN /\ text # <<>> /\ Last(text) = "lf"
     /\ lines[last] = <<>>
     /\ \A n \in 1 .. last - 1 :
          /\ \A k \in 1 .. Len(lines[n]) : lines[n][k] \notin {"cr", "ctl"}
          /\ Colon(lines[n]) # {} \/ (n > 1 /\ IsFolded(lines[n]))

StandardNamed(name) ==
  LET ids == {i \in 1 .. Len(Standard) : Standard[i].name = name}
  IN IF ids = {} THEN Unknown ELSE CHOOSE i \in ids : TRUE

\* The fields of a block that have a value, as <<id, name, words>>.
Fields(text) ==
  LET lines == Lines(text)
      firsts == Ascending({n \in 1 .. Len(lines) - 1 : Colon(lines[n]) # {} /\ ~IsFolded(lines[n])})
      Until(n) == IF n = Len(firsts) THEN Len(lines) - 1 ELSE firsts[n + 1] - 1
      Whole(n) == FlattenSeq([k \in 1 .. Until(n) - firsts[n] + 1 |->
                                lines[firsts[n] + k - 1] \o <<"lf">>])
      Field(n) ==
        LET colon == CHOOSE k \in Colon(lines[firsts[n]]) : TRUE
            name == SubSeq(Whole(n), 1, colon - 1)
        IN <<StandardNamed(name), name, Words(SubSeq(Whole(n), colon + 1, Len(Whole(n))))>>
      HasValue(f) == f[3] # <<>>
  IN SelectSeq([n \in 1 .. Len(firsts) |-> Field(n)], HasValue)

\* What a parser that does not ignore errors asks of the fields as well.
IsStrict(fields) ==
  /\ \A n \in 1 .. Len(fields) :
       fields[n][1] # Unknown /\ Standard[fields[n][1]].single => Len(fields[n][3]) = 1
  /\ \A m, n \in 1 .. Len(fields) :
       m < n /\ fields[m][1] # Unknown /\ fields[m][1] = fields[n][1]
         => Standard[fields[n][1]].list

IsAccepted(text, ignore_errors) ==
  IsBlock(text) /\ (ignore_errors \/ IsStrict(Fields(text)))
=============================================================================
