------------------------------ MODULE FileCrew ------------------------------
(***************************************************************************)
(* The programs that give every file of the command line to a worker of    *)
(* its own: word count (wcST in one thread, wcMT and wcMTMM with threads,  *)
(* wcMT_VTP with a thread pool, the defective wcMTxx that polls a flag)    *)
(* and pattern search (grepMT with threads, grepMP with processes), whose  *)
(* workers leave their lines in temporary files that the boss lists.       *)
(*                                                                         *)
(* A file's contents are a sequence of kinds of character, and a search    *)
(* finds a file that has a letter.  program and contents are rigid.        *)
(***************************************************************************)
EXTENDS Integers, Sequences, FiniteSets, SequencesExt

CONSTANTS
  NFiles,    \* at most so many files on the command line
  Contents,  \* the contents a file may have
  MaxWait    \* MAXIMUM_WAIT_OBJECTS

CrewAssumption == NFiles \in Nat \ {0} /\ MaxWait \in Nat

Files == 1..NFiles
Missing == <<"missing">>       \* a file that cannot be opened
WordCounts == {"wcST", "wcMT", "wcMTMM", "wcMT_VTP", "wcMTxx"}
Programs == WordCounts \cup {"grepMT", "grepMP"}

VARIABLES
  program,
  contents,        \* of the files of the command line
  fPc,             \* each worker's next statement
  results,         \* wc: each worker's counts
  Done,            \* wcMTxx: each worker's flag
  args,            \* grepMT: gArg, and tHandle: the worker, the name, the temp file
  copied,          \* grepMT: the arguments each worker has copied
  temps,           \* grep: the temporary files and what they hold
  held,            \* grepMT: temporary files that a thread left open
  fBoss, at,       \* the boss, and its index
  totals, listed   \* what the boss has added up, listed

crew == <<fPc, results, Done, copied, temps, held>>
vars == <<program, contents, crew, args, fBoss, at, totals, listed>>

Zero == [char |-> 0, word |-> 0, line |-> 0]
Plus(r, s) == [k \in DOMAIN r |-> r[k] + s[k]]

InitOf(p, c) ==
  /\ program = p /\ contents = c
  /\ fPc = [f \in Files |-> "new"]
  /\ results = [f \in Files |-> Zero] /\ Done = [f \in Files |-> FALSE]
  /\ args = [f \in Files |-> [handle |-> f, name |-> f, temp |-> f]]
  /\ copied = [f \in Files |-> 0]
  /\ temps = [f \in Files |-> {}] /\ held = {}
  /\ fBoss = "create" /\ at = 1
  /\ totals = Zero /\ listed = <<>>

Init == \E n \in Files : \E p \in Programs, c \in [1..n -> Contents] : InitOf(p, c)

nFiles == Len(contents)

-----------------------------------------------------------------------------
\* wcfunc

IsSpace(c) == c \in {"space", "newline"}

\* getc gives one character more, the end of file, before feof is true.
GetcStep(r, c) ==
  IF r.stop \/ c = "nul" THEN [r EXCEPT !.stop = TRUE]
  ELSE [r EXCEPT !.word = @ + (IF IsSpace(c) /\ r.last = "letter" THEN 1 ELSE 0),
                 !.char = @ + 1,
                 !.line = @ + (IF c = "newline" THEN 1 ELSE 0),
                 !.last = c]
GetcCount(s) ==
  LET r == FoldLeft(GetcStep, [char |-> 0, word |-> 0, line |-> 0, last |-> "nul",
                               stop |-> FALSE], Append(s, "eof"))
  IN [char |-> r.char, word |-> r.word, line |-> r.line]

MappedStep(r, c) ==
  [word |-> r.word + (IF ~IsSpace(c) /\ r.space THEN 1 ELSE 0),
   line |-> r.line + (IF c = "newline" THEN 1 ELSE 0),
   space |-> IsSpace(c)]
MappedCount(s) ==
  LET r == FoldLeft(MappedStep, [word |-> 0, line |-> 0, space |-> TRUE], s)
  IN [char |-> Len(s), word |-> r.word, line |-> r.line]

\* Opening fails for a missing file, mapping also for an empty one; the counts
\* then stay as they were.
Opens(p, s) == s # Missing /\ (p \in {"wcMTMM", "wcMT_VTP"} => s # <<>>)
Count(p, s) == IF p \in {"wcMTMM", "wcMT_VTP"} THEN MappedCount(s) ELSE GetcCount(s)

Goto(f, l) == fPc' = [fPc EXCEPT ![f] = l]

wcfunc(f) ==
  /\ program \in WordCounts /\ fPc[f] = "run"
  /\ IF Opens(program, contents[f]) THEN Goto(f, "store") ELSE Goto(f, "exit")
  /\ UNCHANGED <<program, contents, results, Done, args, copied, temps, held, fBoss, at,
                 totals, listed>>

wcfuncStore(f) ==
  /\ fPc[f] = "store"
  /\ results' = [results EXCEPT ![f] = Count(program, contents[f])]
  /\ Done' = [Done EXCEPT ![f] = TRUE]
  /\ Goto(f, "exit")
  /\ UNCHANGED <<program, contents, args, copied, temps, held, fBoss, at, totals, listed>>

-----------------------------------------------------------------------------
\* grep

\* Complete lines only are searched, and each up to its first nul.
Hidden(s, i) == \E k \in 1..i : s[k] = "nul" /\ \A l \in k..i : s[l] # "newline"
Matches(s) ==
  \E i, j \in 1..Len(s) : i < j /\ s[i] = "letter" /\ s[j] = "newline" /\ ~Hidden(s, i)

\* ThGrep copies its arguments; a grep process has them on its command line.
GrepStart(f) ==
  /\ program \in {"grepMT", "grepMP"} /\ fPc[f] = "run"
  /\ copied' = [copied EXCEPT ![f] = IF program = "grepMT" THEN args[f].name ELSE f]
  /\ Goto(f, "search")
  /\ UNCHANGED <<program, contents, results, Done, args, temps, held, fBoss, at, totals,
                 listed>>

\* The lines go to the temporary file.  A thread that cannot open its input
\* does not close its output; a process that ends closes it.
GrepSearch(f) ==
  /\ fPc[f] = "search"
  /\ temps' = [temps EXCEPT ![f] = IF Matches(contents[copied[f]]) THEN {copied[f]} ELSE {}]
  /\ held' = IF program = "grepMT" /\ contents[copied[f]] = Missing
             THEN held \cup {f} ELSE held
  /\ Goto(f, "exit")
  /\ UNCHANGED <<program, contents, results, Done, args, copied, fBoss, at, totals, listed>>

Worker(f) == wcfunc(f) \/ wcfuncStore(f) \/ GrepStart(f) \/ GrepSearch(f)

-----------------------------------------------------------------------------
\* The boss

BossCreate ==
  /\ fBoss = "create" /\ program # "wcST" /\ program \in Programs
  /\ Goto(at, "run")
  /\ IF at < nFiles THEN at' = at + 1 /\ fBoss' = fBoss
     ELSE /\ at' = IF program = "grepMT" THEN nFiles ELSE 1
          /\ fBoss' = "wait"
  /\ UNCHANGED <<program, contents, results, Done, args, copied, temps, held, totals, listed>>

\* wcST calls wcfunc itself for one file after the other.
BossCalls ==
  /\ fBoss = "create" /\ program = "wcST"
  /\ IF fPc[at] = "new" THEN Goto(at, "run") /\ UNCHANGED <<at, fBoss, totals>>
     ELSE /\ fPc[at] = "exit"
          /\ totals' = Plus(totals, results[at])
          /\ IF at < nFiles THEN at' = at + 1 /\ fBoss' = fBoss ELSE at' = at /\ fBoss' = "done"
          /\ UNCHANGED fPc
  /\ UNCHANGED <<program, contents, results, Done, args, copied, temps, held, listed>>

\* wc waits for its workers, in order or for all of them, and adds up; wcMTxx
\* polls the flag.
FinishedFirst(f) ==  \* Fault: only the first worker is waited for.
  IF program = "wcMTxx" THEN Done[f] ELSE fPc[1] = "exit"
Finished(f) ==
  IF program = "wcMTxx" THEN Done[f]
  ELSE IF program = "wcMT_VTP" THEN \A g \in 1..nFiles : fPc[g] = "exit"
  ELSE fPc[f] = "exit"

BossAdds ==
  /\ fBoss = "wait" /\ program \in WordCounts
  /\ Finished(at)
  /\ totals' = Plus(totals, results[at])
  /\ IF at < nFiles THEN at' = at + 1 /\ fBoss' = fBoss ELSE at' = at /\ fBoss' = "done"
  /\ UNCHANGED <<program, contents, crew, args, listed>>

\* grepMT waits for any of the first `at` handles: the first that is signalled.
\* Its worker's lines are listed, the temporary file is deleted (fatal when it
\* is open), and the last entry of the arrays takes the free place.
Signalled == {i \in 1..at : fPc[args[i].handle] = "exit"}
First == CHOOSE i \in Signalled : \A j \in Signalled : i <= j

CompactHandleOnly(i) ==  \* Fault: the names are not moved with the handle.
  args' = [args EXCEPT ![i].handle = args[at].handle]
Compact(i) ==
  args' = [args EXCEPT ![i] = args[at]]

ListIfFound(name, temp, found) ==
  listed' = IF found THEN Append(listed, <<name, temps[temp]>>) ELSE listed

GrepTooMany ==
  /\ fBoss = "wait" /\ program = "grepMT" /\ at > MaxWait
  /\ fBoss' = "failed"
  /\ UNCHANGED <<program, contents, crew, args, at, totals, listed>>

GrepListAny ==
  /\ fBoss = "wait" /\ program = "grepMT" /\ at <= MaxWait
  /\ Signalled # {}
  /\ LET a == args[First] IN
     /\ ListIfFound(a.name, a.temp, temps[a.handle] # {})
     /\ IF a.temp \in held
        THEN fBoss' = "failed" /\ UNCHANGED <<args, at>>
        ELSE /\ Compact(First)
             /\ at' = at - 1
             /\ fBoss' = IF at = 1 THEN "done" ELSE fBoss
  /\ UNCHANGED <<program, contents, crew, totals>>

\* grepMP waits for MaxWait processes at a time, then lists in order.
GrepWaitChunkOnce ==  \* Fault: only the first processes are waited for.
  /\ fBoss = "wait" /\ program = "grepMP"
  /\ \A f \in 1..nFiles : at <= f /\ f < at + MaxWait => fPc[f] = "exit"
  /\ at' = 1 /\ fBoss' = "list"
  /\ UNCHANGED <<program, contents, crew, args, totals, listed>>
GrepWaitChunk ==
  /\ fBoss = "wait" /\ program = "grepMP"
  /\ \A f \in 1..nFiles : at <= f /\ f < at + MaxWait => fPc[f] = "exit"
  /\ IF at + MaxWait <= nFiles THEN at' = at + MaxWait /\ fBoss' = fBoss
     ELSE at' = 1 /\ fBoss' = "list"
  /\ UNCHANGED <<program, contents, crew, args, totals, listed>>

GrepList ==
  /\ fBoss = "list"
  /\ ListIfFound(at, at, temps[at] # {})
  /\ IF at < nFiles THEN at' = at + 1 /\ fBoss' = fBoss ELSE at' = at /\ fBoss' = "done"
  /\ UNCHANGED <<program, contents, crew, args, totals>>

Boss ==
  \/ BossCreate \/ BossCalls \/ BossAdds
  \/ GrepTooMany \/ GrepListAny \/ GrepWaitChunk \/ GrepList

Step == Boss \/ \E f \in Files : Worker(f)

\* The programs.
wcST == program = "wcST" /\ Step
wcMT == program = "wcMT" /\ Step
wcMTxx == program = "wcMTxx" /\ Step
wcMTMM == program = "wcMTMM" /\ Step
wcMT_VTP == program = "wcMT_VTP" /\ Step
grepMT == program = "grepMT" /\ Step
grepMP == program = "grepMP" /\ Step

Next == wcST \/ wcMT \/ wcMTxx \/ wcMTMM \/ wcMT_VTP \/ grepMT \/ grepMP

Fairness == WF_vars(Boss) /\ \A f \in Files : WF_vars(Worker(f))
Spec == Init /\ [][Next]_vars

-----------------------------------------------------------------------------
(* Every variable has its type, within the bounds of the instance.         *)
TypeOK ==
  /\ program \in Programs \cup {"none"}
  /\ fPc \in [Files -> {"new", "run", "store", "search", "exit"}]
  /\ args \in [Files -> [handle : Files, name : Files, temp : Files]]
  /\ copied \in [Files -> Files \cup {0}] /\ held \subseteq Files
  /\ fBoss \in {"create", "wait", "list", "done", "failed"} /\ at \in 0..NFiles

(* What wc reports is the sum over the files of what a definition of        *)
(* characters, words and lines gives: positions of the contents.  getc      *)
(* counts the end of file as a character and ends a word at a space only;   *)
(* a mapped file is counted to its size and a word starts after a space.    *)
Before(s) == {i \in 1..Len(s) : \A j \in 1..i : s[j] # "nul"}
Reference(p, s) ==
  IF ~Opens(p, s) THEN Zero
  ELSE IF p \in {"wcMTMM", "wcMT_VTP"}
  THEN [char |-> Len(s),
        word |-> Cardinality({i \in 1..Len(s) : ~IsSpace(s[i]) /\ (i > 1 => IsSpace(s[i-1]))}),
        line |-> Cardinality({i \in 1..Len(s) : s[i] = "newline"})]
  ELSE [char |-> Cardinality(Before(s)) + (IF Cardinality(Before(s)) = Len(s) THEN 1 ELSE 0),
        word |-> Cardinality({i \in Before(s) : i > 1 /\ IsSpace(s[i]) /\ s[i-1] = "letter"}),
        line |-> Cardinality({i \in Before(s) : s[i] = "newline"})]
WordCountRight ==
  (fBoss = "done" /\ program \in WordCounts) =>
    totals = FoldLeft(LAMBDA r, f : Plus(r, Reference(program, contents[f])), Zero,
                      [f \in 1..nFiles |-> f])

(* Every search works on its own file though the boss moves the arguments   *)
(* of other files while threads start, and what is listed under a file's    *)
(* name is what was found in that file, listed once.                        *)
ListedUnderItsName ==
  /\ \A f \in Files : copied[f] \in {0, f}
  /\ \A i \in 1..Len(listed) : listed[i][2] = {listed[i][1]}
  /\ Cardinality({listed[i][1] : i \in 1..Len(listed)}) = Len(listed)

(* A search that ends normally has listed every file with a match; grepMT   *)
(* ends abnormally only for too many files or a file it cannot open, after  *)
(* which matches of other files may never be listed.                        *)
EveryMatchListed ==
  /\ (fBoss = "done" /\ program \in {"grepMT", "grepMP"}) =>
       {listed[i][1] : i \in 1..Len(listed)} = {f \in 1..nFiles : Matches(contents[f])}
  /\ fBoss = "failed" => /\ program = "grepMT"
                         /\ nFiles > MaxWait \/ \E f \in 1..nFiles : contents[f] = Missing

(* Every program ends, but for wcMTxx when a file cannot be opened: no one  *)
(* raises that worker's flag.                                               *)
Hangs == program = "wcMTxx" /\ \E f \in 1..nFiles : contents[f] = Missing
Ended == program \in Programs /\ ~Hangs => fBoss \in {"done", "failed"}
=============================================================================
