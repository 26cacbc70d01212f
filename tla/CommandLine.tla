----------------------------- MODULE CommandLine -----------------------------
(***************************************************************************)
(* The command lines of a restricted run_command: SplitArgv splits one     *)
(* into words without a shell, ParseAllowEntry reads an entry of           *)
(* allow_commands with the same rules, and CheckCommand lets a command     *)
(* through when its words match an entry (pkg/sandbox).  A line is a       *)
(* sequence of characters; "a" stands for every character without a        *)
(* meaning, ";" for the operators ; & | ` < > (of which ` can also be      *)
(* escaped within double quotes), "nl" for the newline.                    *)
(***************************************************************************)
EXTENDS Naturals, Sequences, SequencesExt

Chars == {"a", "*", " ", "'", "\"", "\\", "$", "(", ";", "nl"}

(* ---- argv.go ---- *)

\* skip: the character was read with the one before it.
NoWord == [argv |-> <<>>, cur |-> <<>>, inWord |-> FALSE, quote |-> "none",
           skip |-> FALSE, ok |-> TRUE]

Put(st, c) == [st EXCEPT !.cur = Append(@, c), !.inWord = TRUE]
Bad(st) == [st EXCEPT !.ok = FALSE]

Within(st, c, next) ==
  CASE st.quote = "single" /\ c = "'" -> [st EXCEPT !.quote = "none"]
    [] st.quote = "double" /\ c = "\"" -> [st EXCEPT !.quote = "none"]
    [] st.quote = "double" /\ c = "\\" /\ next \in {"$", "\"", "\\"} ->
         [Put(st, next) EXCEPT !.skip = TRUE]
    [] OTHER -> Put(st, c)

Unquoted(st, c, next) ==
  CASE c = " " /\ st.inWord ->
         [st EXCEPT !.argv = Append(@, st.cur), !.cur = <<>>, !.inWord = FALSE]
    [] c = " " /\ ~st.inWord -> st
    [] c = "'" -> [st EXCEPT !.quote = "single", !.inWord = TRUE]
    [] c = "\"" -> [st EXCEPT !.quote = "double", !.inWord = TRUE]
    [] c = "\\" /\ next \notin {"end", "nl"} -> [Put(st, next) EXCEPT !.skip = TRUE]
    [] c \in {"nl", ";"} \/ (c = "\\" /\ next \in {"end", "nl"}) -> Bad(st)
    [] c = "$" /\ next = "(" -> Bad(st)
    [] OTHER -> Put(st, c)

Read(s, st, i) ==
  LET next == IF i < Len(s) THEN s[i + 1] ELSE "end"
  IN CASE ~st.ok -> st
       [] st.ok /\ st.skip -> [st EXCEPT !.skip = FALSE]
       [] st.ok /\ ~st.skip /\ st.quote # "none" -> Within(st, s[i], next)
       [] OTHER -> Unquoted(st, s[i], next)

\* The words read so far, once the line is over.
Words(st) ==
  CASE ~st.ok \/ st.quote # "none" -> <<>>
    [] st.ok /\ st.quote = "none" /\ st.inWord -> Append(st.argv, st.cur)
    [] OTHER -> st.argv

\* The words of s, or the empty sequence when it is refused.
SplitArgv(s) ==
  LET upTo[i \in 0..Len(s)] == IF i = 0 THEN NoWord ELSE Read(s, upTo[i - 1], i)
  IN Words(upTo[Len(s)])

(* ---- allow.go ---- *)

Star == <<"*">>

\* An entry that is refused is a rule without words.
ParseAllowEntry(entry) ==
  LET argv == SplitArgv(entry)
      any == argv # <<>> /\ Last(argv) = Star
      prefix == IF any THEN Front(argv) ELSE argv
  IN [prefix |-> IF \E i \in DOMAIN prefix : prefix[i] = Star THEN <<>> ELSE prefix,
      anyArgs |-> any]

Legal(rule) == rule.prefix # <<>>

\* Mutant: an entry without * lets arguments follow.
MatchesPrefix(rule, argv) == IsPrefix(rule.prefix, argv)

Matches(rule, argv) ==
  /\ IsPrefix(rule.prefix, argv)
  /\ rule.anyArgs \/ Len(argv) = Len(rule.prefix)

CheckCommand(rules, command) ==
  LET argv == SplitArgv(command)
  IN argv # <<>> /\ \E r \in rules : Matches(r, argv)

(* ---- properties, over bounded inputs ---- *)

\* A word in single quotes, as the description of run_command tells the model
\* to quote, with a quote inside it as '\''.
InQuotes(w) ==
  <<"'">> \o FlattenSeq([i \in DOMAIN w |-> IF w[i] = "'" THEN <<"'", "\\", "'", "'">>
                                                          ELSE <<w[i]>>]) \o <<"'">>

QuotedLine(argv) == FlattenSeq([i \in DOMAIN argv |-> InQuotes(argv[i]) \o <<" ">>])

UpTo(S, n) == UNION {[1..k -> S] : k \in 0..n}

\* An entry of allow_commands means its own words: an entry that is accepted
\* lets itself through, and with a trailing * also itself with any quoted
\* arguments, and no other number of its words.
EntryMeansItsWords(entry) ==
  LET rule == ParseAllowEntry(entry)
      prefix == QuotedLine(rule.prefix)
  IN Legal(rule) =>
       /\ CheckCommand({rule}, prefix)
       /\ \A w \in UpTo(Chars, 1) :
            CheckCommand({rule}, prefix \o InQuotes(w)) <=> rule.anyArgs
       /\ Len(rule.prefix) > 1 => ~CheckCommand({rule}, QuotedLine(Front(rule.prefix)))

\* Whatever words are quoted as the description of run_command says come back
\* as they were, with operators, newlines and quotes in them.
QuotedSurvive(argv) == argv # <<>> => SplitArgv(QuotedLine(argv)) = argv

\* The entries and the words that refute it.
Misread ==
  {entry \in UpTo(Chars, 4) : ~EntryMeansItsWords(entry)}
    \cup {argv \in UpTo(UpTo(Chars, 2), 1) \cup UpTo(UpTo(Chars, 1), 2) : ~QuotedSurvive(argv)}
==============================================================================
