---------------------------- MODULE GrepPattern -----------------------------
(***************************************************************************)
(* The pattern search that grep, grepMT and grepMTx share: the preparation *)
(* of the pattern of the command line and the search of one line for it.   *)
(* A pattern and a line are sequences of characters; the characters that   *)
(* preparation replaces get a name of their own.                           *)
(***************************************************************************)
EXTENDS Naturals, Sequences, SequencesExt

CONSTANTS
  RawPatterns,   \* patterns to search for
  Lines          \* lines to search, without their newline

VARIABLES
  raw, line,
  verdict        \* "no" or "yes"; "idle" before the search

vars == <<raw, line, verdict>>

-----------------------------------------------------------------------------
\* prepSearchString.  A '*' after a '*' stays the character itself.
PrepStep(buf, c) ==
  CASE c = "^" /\ buf = <<>> -> <<"ANCHOR">>
    [] c = "*" /\ (buf = <<>> \/ Last(buf) # "STAR") -> Append(buf, "STAR")
    [] c = "?" -> Append(buf, "QM")
    [] c = "[" -> Append(buf, "BEGCLASS")
    [] c = "]" -> Append(buf, "ENDCLASS")
    [] OTHER -> Append(buf, c)
prepSearchString(p) == FoldLeft(PrepStep, <<>>, p)

\* patternMatch: is there a match of the pattern from its place p, at place s of
\* the string?  When it fails, the search goes on at the next place of the string
\* with the pattern's first place t, unless it is anchored.
patternMatch(pattern, string) ==
  LET n == Len(pattern)
      k == Len(string)
      classEnd(p) == CHOOSE e \in p..n : /\ pattern[e] = "ENDCLASS"
                                         /\ \A i \in p..(e - 1) : pattern[i] # "ENDCLASS"
      class(p) == {pattern[i] : i \in (p + 1)..(classEnd(p) - 1)}
      match[a \in BOOLEAN, t, p \in 1..(n + 1), s \in 1..(k + 1)] ==
        IF p > n THEN TRUE
        ELSE IF s > k THEN pattern[p] = "STAR" /\ match[a, t, p + 1, s]
        ELSE CASE pattern[p] \in {string[s], "QM"} -> match[a, t, p + 1, s + 1]
               [] pattern[p] = "STAR" ->
                    match[FALSE, p + 1, p + 1, s] \/ match[a, t, p, s + 1]
               [] pattern[p] = "BEGCLASS" /\ string[s] \in class(p) ->
                    match[a, t, classEnd(p) + 1, s + 1]
               [] OTHER -> ~a /\ match[a, t, t, s + 1]
      anchored == pattern # <<>> /\ pattern[1] = "ANCHOR"
      first == IF anchored THEN 2 ELSE 1
  IN match[anchored, first, first, 1]

InitOf(p, l, v) == raw = p /\ line = l /\ verdict = v
Init == \E p \in RawPatterns, l \in Lines : InitOf(p, l, "idle")

SearchAlways ==  \* Fault: '?' may stand for no character.
  /\ verdict = "idle"
  /\ verdict' = IF \/ patternMatch(prepSearchString(raw), line)
                   \/ patternMatch(SelectSeq(prepSearchString(raw), LAMBDA c : c # "QM"), line)
                THEN "yes" ELSE "no"
  /\ UNCHANGED <<raw, line>>
SearchUnanchored ==  \* Fault: '^' is ignored.
  /\ verdict = "idle"
  /\ verdict' = IF patternMatch(SelectSeq(prepSearchString(raw), LAMBDA c : c # "ANCHOR"), line)
                THEN "yes" ELSE "no"
  /\ UNCHANGED <<raw, line>>
Search ==
  /\ verdict = "idle"
  /\ verdict' = IF patternMatch(prepSearchString(raw), line) THEN "yes" ELSE "no"
  /\ UNCHANGED <<raw, line>>

Next == Search
Fairness == WF_vars(Search)
Spec == Init /\ [][Next]_vars /\ Fairness
Ended == verdict # "idle"

-----------------------------------------------------------------------------
\* What the header of GREP.C says: a pattern is a list of parts, and it is found
\* when, from some place of the line on (the beginning, after '^'), each part
\* takes the characters that it may take.  Spans[i]: the places where the first i
\* parts may end when they begin at place b.
Body(p) == IF p # <<>> /\ p[1] = "^" THEN Tail(p) ELSE p
Opened(p, i) == \E j \in 1..i : p[j] = "[" /\ \A l \in j..i : p[l] # "]"
Ends(p, b, l) ==
  LET class(i) == {p[j] : j \in {j \in 1..(i - 1) : Opened(p, j) /\ ~\E m \in j..(i - 1) : p[m] = "]"}}
      ends[i \in 0..Len(p)] ==
        IF i = 0 THEN {b}
        ELSE LET before == ends[i - 1] IN
          CASE p[i] = "*" -> {e \in b..(Len(l) + 1) : \E d \in before : d <= e}
            [] p[i] = "?" -> {d + 1 : d \in before \cap 1..Len(l)}
            [] p[i] = "]" -> {d + 1 : d \in {d \in before \cap 1..Len(l) : l[d] \in class(i)}}
            [] Opened(p, i) -> before
            [] OTHER -> {d + 1 : d \in {d \in before \cap 1..Len(l) : l[d] = p[i]}}
  IN ends[Len(p)]
Documented(p, l) ==
  \E b \in 1..(Len(l) + 1) : (p # <<>> /\ p[1] = "^" => b = 1) /\ Ends(Body(p), b, l) # {}

(* A line that is reported contains the pattern.                            *)
FoundSound == verdict = "yes" => Documented(raw, line)

(* An anchored pattern without '*' and a pattern of one character are found *)
(* exactly when they occur: nothing can go wrong in going back.             *)
Exact(p) == "*" \notin Range(p) /\ (p[1] = "^" \/ Len(p) = 1)
FoundExact == verdict # "idle" /\ Exact(raw) => (verdict = "yes" <=> Documented(raw, line))

(* GREP.C:5: "Looks for pattern in files", wherever in a line it occurs.     *)
(* Fails, and no run checks it: see section 7 of the README.                *)
FoundWherever == verdict # "idle" => (verdict = "yes" <=> Documented(raw, line))
=============================================================================
