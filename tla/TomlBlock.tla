------------------------------- MODULE TomlBlock -------------------------------
(***************************************************************************)
(* The editing of one [mcp_servers.<name>] block in Codex's config.toml    *)
(* (pkg/runtimecfg/tomlblock.go).  The editor works on lines: it cuts the  *)
(* file at whatever looks like a table header, replaces or drops the       *)
(* segments of the server, and joins the rest with blank lines.  It does   *)
(* not know of multi-line strings; a guard decodes the text before and     *)
(* after, and refuses an edit that would change anything else.             *)
(*                                                                         *)
(* A line is a record.  "header" lines name a table: "me" is the server's, *)
(* "me.sub" a table below it, "other" another server's, "mcp" the bare     *)
(* [mcp_servers], "far" any other.  "key" lines set a key, "open" starts a *)
(* multi-line string and "close" ends it; `me = {...}' in [mcp_servers] is *)
(* the key "me".  A document is the set of its tables <<table>> and values *)
(* <<table, key, value>>.                                                  *)
(***************************************************************************)
EXTENDS Naturals, Sequences, SequencesExt

Header(t) == [kind |-> "header", table |-> t, eol |-> "lf"]
Key(n, v) == [kind |-> "key", key |-> n, value |-> v, eol |-> "lf"]
Open == [kind |-> "open", key |-> "text", eol |-> "lf"]
Close == [kind |-> "close", eol |-> "lf"]
Comment == [kind |-> "comment", eol |-> "lf"]
Blank == [kind |-> "blank", eol |-> "lf"]

Mine == {"me", "me.sub"}

(* ---- the TOML decoder (external) ---- *)

Scan0 == [table |-> "top", in |-> FALSE, text |-> <<>>, doc |-> {}, ok |-> TRUE]

\* A server is a table, or a key of [mcp_servers]; both at once is an error.
Defined(st, t, n) ==
  \E fact \in st.doc : Len(fact) = 3 /\ fact[1] = t /\ fact[2] = n

Set(st, n, v) ==
  LET inline == st.table = "mcp" /\ n = "me"
      t == IF inline THEN "me" ELSE st.table
      k == IF inline THEN "inline" ELSE n
      again == Defined(st, t, k) \/ (inline /\ \E m \in Mine : <<m>> \in st.doc)
  IN [st EXCEPT !.doc = @ \cup {<<t, k, v>>}, !.ok = @ /\ ~again, !.in = FALSE, !.text = <<>>]

Enter(st, t) ==
  LET again == <<t>> \in st.doc \/ (t \in Mine /\ Defined(st, "me", "inline"))
  IN [st EXCEPT !.doc = @ \cup {<<t>>}, !.table = t, !.ok = @ /\ ~again]

Scan(st, l) ==
  CASE st.in /\ l.kind = "close" -> Set(st, "text", st.text)
    [] st.in /\ l.kind # "close" -> [st EXCEPT !.text = Append(@, l)]
    [] ~st.in /\ l.kind = "header" -> Enter(st, l.table)
    [] ~st.in /\ l.kind = "key" -> Set(st, l.key, l.value)
    [] ~st.in /\ l.kind = "open" -> [st EXCEPT !.in = TRUE]
    [] ~st.in /\ l.kind = "close" -> [st EXCEPT !.ok = FALSE]
    [] OTHER -> st

Scanned(lines) ==
  LET after[i \in 0..Len(lines)] ==
        IF i = 0 THEN Scan0 ELSE Scan(after[i - 1], lines[i])
  IN after[Len(lines)]

Valid(lines) == Scanned(lines).ok /\ ~Scanned(lines).in
Decode(lines) == Scanned(lines).doc

(* ---- documents ---- *)

Entry(doc) == {fact \in doc : fact[1] \in Mine}

\* The document without the server, and without mcp_servers if that leaves it
\* empty; that [mcp_servers] is written out makes no difference.
withoutServer(doc) == {fact \in doc \ Entry(doc) : fact # <<"mcp">>}

(* ---- segments ---- *)

IsHeader(l) == l.kind = "header"
Target(l) == IsHeader(l) /\ l.table \in Mine
Segment(lines, mine) == [lines |-> lines, target |-> mine]

\* The lines cut before every header; the first segment has none.
splitSegments(lines) ==
  LET upTo[i \in 0..Len(lines)] ==
        IF i = 0 THEN <<Segment(<<>>, FALSE)>>
        ELSE IF IsHeader(lines[i])
          THEN Append(upTo[i - 1], Segment(<<lines[i]>>, Target(lines[i])))
        ELSE [upTo[i - 1] EXCEPT ![Len(upTo[i - 1])].lines = Append(@, lines[i])]
  IN upTo[Len(lines)]

IsContent(l) == l.kind \notin {"blank", "comment"}

LastContent(lines) ==
  CHOOSE n \in 1..Len(lines) :
    IsContent(lines[n]) /\ \A i \in n+1..Len(lines) : ~IsContent(lines[i])

\* The blank and comment lines that end a segment of the server are not its own.
detached(seg) ==
  IF ~seg.target THEN <<seg>>
  ELSE LET n == LastContent(seg.lines)
       IN <<Segment(SubSeq(seg.lines, 1, n), TRUE),
            Segment(SubSeq(seg.lines, n + 1, Len(seg.lines)), FALSE)>>

\* Mutant: a segment keeps the comments in front of the next table.
TailsKept(segs) == segs

detachTails(segs) == FlattenSeq([i \in DOMAIN segs |-> detached(segs[i])])

NotBlank(l) == l.kind # "blank"

\* Mutant: the blank lines around a segment stay.
NotTrimmed(lines) == lines

Trimmed(lines) ==
  LET at == {i \in DOMAIN lines : NotBlank(lines[i])}
  IN IF at = {} THEN <<>>
     ELSE SubSeq(lines, CHOOSE i \in at : \A j \in at : i <= j,
                        CHOOSE i \in at : \A j \in at : j <= i)

\* The pieces that are not empty, with a blank line between them.
Joined(pieces) ==
  LET upTo[i \in 0..Len(pieces)] ==
        IF i = 0 THEN <<>>
        ELSE IF pieces[i] = <<>> THEN upTo[i - 1]
        ELSE IF upTo[i - 1] = <<>> THEN pieces[i]
        ELSE upTo[i - 1] \o <<Blank>> \o pieces[i]
  IN upTo[Len(pieces)]

(* ---- edits ---- *)

\* An entry is [command, rest]: what abby sets, and the facts of everything
\* else; it is written as its table and the tables below it, `command' first.
Keys(facts) ==
  LET order == SetToSeq(facts)
  IN [i \in DOMAIN order |-> Key(order[i][2], order[i][3])]

Table(server, t) ==
  LET facts == {f \in server : Len(f) = 3 /\ f[1] = t}
      command == {f \in facts : f[2] = "command"}
  IN <<Header(t)>> \o Keys(command) \o Keys(facts \ command)

renderTOMLServer(server) ==
  Table(server, "me") \o (IF \E f \in server : f[1] = "me.sub"
                         THEN <<Blank>> \o Table(server, "me.sub") ELSE <<>>)

Overlaid(server, value) ==
  {f \in server : Len(f) = 1 \/ f[1] # "me" \/ f[2] # "command"}
    \cup {<<"me">>, <<"me", "command", value>>}

LF(lines) == [i \in DOMAIN lines |-> [lines[i] EXCEPT !.eol = "lf"]]
CRLF(lines) == [i \in DOMAIN lines |-> [lines[i] EXCEPT !.eol = "crlf"]]

guardTOMLEdit(original, edited) ==
  Valid(edited) /\ withoutServer(Decode(edited)) = withoutServer(Decode(original))

Refused == <<[kind |-> "refused"]>>

\* A file with any CRLF is written back in CRLF; if it also has LF, only when
\* that changes no value.
restoreLineEndings(original, edited) ==
  CASE \A i \in DOMAIN original : original[i].eol = "lf" -> edited
    [] \A i \in DOMAIN original : original[i].eol = "crlf" -> CRLF(edited)
    [] OTHER -> IF guardTOMLEdit(original, CRLF(edited)) THEN CRLF(edited) ELSE Refused

\* Every segment but the server's, with `block' where its first was, or at the end.
Untargeted(segs) == \A i \in DOMAIN segs : ~segs[i].target

Pieces(segs, block) ==
  [i \in DOMAIN segs |->
     IF ~segs[i].target THEN Trimmed(segs[i].lines)
     ELSE IF Untargeted(SubSeq(segs, 1, i - 1)) THEN block
     ELSE <<>>]

Assembled(lines, block) ==
  LET segs == detachTails(splitSegments(lines))
      pieces == Pieces(segs, block)
  IN Joined(IF Untargeted(segs) THEN Append(pieces, block) ELSE pieces)

HasTarget(lines) == \E i \in DOMAIN lines : Target(lines[i])

upsertTOMLServer(file, value) ==
  LET lines == LF(file)
      server == Entry(Decode(lines))
      after == Overlaid(server, value)
      edited == Assembled(lines, renderTOMLServer(after))
  IN IF /\ Valid(lines)
        /\ server # {} => HasTarget(lines)
        /\ guardTOMLEdit(lines, edited)
        /\ Entry(Decode(edited)) = after
     THEN restoreLineEndings(file, edited)
     ELSE Refused

removeTOMLServer(file) ==
  LET lines == LF(file)
      edited == Assembled(lines, <<>>)
  IN CASE Valid(lines) /\ Entry(Decode(lines)) = {} -> file
       [] /\ Valid(lines) /\ Entry(Decode(lines)) # {} /\ HasTarget(lines)
          /\ guardTOMLEdit(lines, edited) /\ Entry(Decode(edited)) = {} ->
            restoreLineEndings(file, edited)
       [] OTHER -> Refused

(* ---- properties, over bounded inputs ---- *)

UpToLines(S, n) == UNION {[1..k -> S] : k \in 0..n}

\* Files of tables, keys and comments; with multi-line strings, whose lines may
\* look like anything; and with mixed line endings.
Plain == UpToLines({Header("me"), Header("me.sub"), Header("other"), Header("mcp"),
                    Key("x", "1"), Comment, Blank}, 4)
           \cup {<<Header("mcp")>> \o f : f \in UpToLines({Key("me", "1"), Header("me"), Comment}, 2)}
Fronts == UpToLines({Header("me"), Key("x", "1")}, 2)
Texts == UpToLines({Header("me"), Header("other"), Comment, Blank}, 2)
Backs == UpToLines({Comment, Header("me")}, 2)
WithString(front, text, back) ==
  front \o <<Header("far"), Open>> \o text \o <<Close>> \o back
Stringy == {WithString(f, g, h) : f \in Fronts, g \in Texts, h \in Backs}
Mixed == {[f EXCEPT ![1].eol = "crlf"] :
            f \in {<<Header("other"), Key("x", "1")>>, <<Open, Comment, Close>>,
                   <<Header("me"), Open, Comment, Close>>}}
Files == Plain \cup Stringy \cup Mixed

\* The lines that are not blank.
NonBlank(lines) ==
  FlattenSeq([i \in DOMAIN lines |-> IF NotBlank(lines[i]) THEN <<lines[i]>> ELSE <<>>])

\* Where the decoder stands before line i.
Before(lines, i) == Scanned(SubSeq(lines, 1, i - 1))

\* Reading on by a line that is not blank: `kept' are the lines that are not the
\* server's, as the decoder sees its tables; `tail' is the comments that end one
\* of its tables if nothing of the table follows.
Read(r, l) ==
  LET own == r.at.table \in Mine
      pass == [kept |-> r.kept \o r.tail \o <<l>>, tail |-> <<>>]
      drop == [kept |-> r.kept, tail |-> <<>>]
      head == [kept |-> r.kept \o r.tail, tail |-> <<>>]
      wait == [kept |-> r.kept, tail |-> Append(r.tail, l)]
  IN CASE r.at.in -> IF own THEN drop ELSE pass
       [] ~r.at.in /\ IsHeader(l) -> IF Target(l) THEN head ELSE pass
       [] ~r.at.in /\ ~IsHeader(l) ->
            IF ~own THEN pass ELSE IF IsContent(l) THEN drop ELSE wait

Reading(lines) ==
  LET upTo[i \in 0..Len(lines)] ==
        IF i = 0 THEN [at |-> Scan0, kept |-> <<>>, tail |-> <<>>]
        ELSE LET r == upTo[i - 1]
                 next == IF NotBlank(lines[i]) THEN Read(r, lines[i]) ELSE r
             IN [at |-> Scan(r.at, lines[i]), kept |-> next.kept, tail |-> next.tail]
  IN upTo[Len(lines)]

Others(lines) == Reading(lines).kept \o Reading(lines).tail

Misleading(lines) ==
  \E i \in DOMAIN lines : Before(lines, i).in /\ IsHeader(lines[i])

\* All lines end alike.
Uniform(lines) == \A i, j \in DOMAIN lines : lines[i].eol = lines[j].eol

\* What the edits of f leave alone and what they set, and when they are refused.
EditedExactly(f) ==
  LET up == upsertTOMLServer(f, "new")
      down == removeTOMLServer(f)
      easy == /\ Valid(LF(f)) /\ ~Misleading(f) /\ Uniform(f)
              /\ ~Defined(Scanned(LF(f)), "me", "inline")
  IN /\ \A out \in {up, down} \ {Refused} :
          Others(LF(out)) = Others(LF(f)) /\ Valid(out)
     /\ (up # Refused => <<"me", "command", "new">> \in Decode(up))
     /\ (down # Refused => Entry(Decode(down)) = {})
     /\ (easy => up # Refused /\ down # Refused)

\* A second edit, and a removal after an edit.
Settled(f) ==
  LET up == upsertTOMLServer(f, "new")
      back == removeTOMLServer(up)
  IN up # Refused =>
       /\ upsertTOMLServer(up, "new") = up
       /\ back # Refused
       /\ (Entry(Decode(LF(f))) = {} =>
             NonBlank(LF(back)) = NonBlank(LF(f)))

\* The files that refute that an edit is exact, and that editing settles.
Misedited == {f \in Files : ~EditedExactly(f)}
Unsettled == {f \in Files : ~Settled(f)}
==============================================================================
