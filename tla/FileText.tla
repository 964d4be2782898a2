------------------------------ MODULE FileText ------------------------------
(***************************************************************************)
(* The texts the file tools read, write and edit (tools/read_file.rs,      *)
(* write_file.rs, edit_file.rs, edit_helpers.rs, unicode_confusables.rs).  *)
(* A text is a sequence of characters; a span <<from, to>> of it starts at *)
(* from and ends before to.                                                *)
(***************************************************************************)
EXTENDS Integers, Sequences

LOCAL INSTANCE SequencesExt
LOCAL INSTANCE FiniteSetsExt

Newline == "nl"
Blank   == {"space", "nbsp", Newline}   \* what trim takes away

Slice(text, span) == SubSeq(text, span[1], span[2] - 1)

\* split('\n'): always one more than there are newlines.
Fields(text) ==
    LET fields[i \in 0 .. Len(text)] ==
          IF i = 0 THEN << <<1, 1>> >>
          ELSE IF text[i] = Newline THEN Append(fields[i - 1], <<i + 1, i + 1>>)
          ELSE [fields[i - 1] EXCEPT ![Len(fields[i - 1])] = <<@[1], i + 1>>]
    IN fields[Len(text)]

EndsLine(text) == text # <<>> /\ Last(text) = Newline

\* split_inclusive('\n'): a final newline starts no further line.
Lines(text) ==
    IF text = <<>> \/ EndsLine(text) THEN Front(Fields(text)) ELSE Fields(text)

-----------------------------------------------------------------------------
\* ---- looking for a text

IsAt(text, pattern, i) ==
    i + Len(pattern) <= Len(text) + 1 /\ Slice(text, <<i, i + Len(pattern)>>) = pattern

\* match_indices: from left to right, none overlapping the one before.
Matches(text, pattern) ==
    LET from[i \in 1 .. Len(text) + 1] ==
          IF i + Len(pattern) > Len(text) + 1 THEN <<>>
          ELSE IF IsAt(text, pattern, i)
               THEN << <<i, i + Len(pattern)>> >> \o from[i + Len(pattern)]
          ELSE from[i + 1]
    IN from[1]

\* CONFUSABLE_MAP.
Confusable(c) ==
    CASE c = "emdash" -> <<"dash", "dash">>
      [] c = "endash" -> <<"dash">>
      [] c = "ellipsis" -> <<"dot", "dot", "dot">>
      [] c \in {"leftquote", "rightquote"} -> <<"quote">>
      [] c \in {"leftapostrophe", "rightapostrophe"} -> <<"apostrophe">>
      [] c = "nbsp" -> <<"space">>
      [] OTHER -> <<c>>

Normalize(text) == FlattenSeq([i \in DOMAIN text |-> Confusable(text[i])])

\* build_offset_map: where in the text each normalized character comes from.
OffsetMap(text) ==
    Append(FlattenSeq([i \in DOMAIN text |-> [k \in DOMAIN Confusable(text[i]) |-> i]]),
           Len(text) + 1)

\* find_normalized_match_positions: the spans of the text that hold the pattern
\* but for confusables.  A match that begins or ends inside the expansion of a
\* character is none; when there are only such, the pattern is ambiguous.
NormalizedMatches(text, pattern) ==
    LET offsets    == OffsetMap(text)
        found      == Matches(Normalize(text), Normalize(pattern))
        candidates == [i \in DOMAIN found |-> <<offsets[found[i][1]], offsets[found[i][2]]>>]
        valid      == SelectSeq(candidates,
                        LAMBDA s : s[1] < s[2] /\ Normalize(Slice(text, s)) = Normalize(pattern))
        overlap    == \E i \in 1 .. Len(valid) - 1 : valid[i][2] > valid[i + 1][1]
    IN  [spans     |-> valid,
         ambiguous |-> overlap \/ (valid = <<>> /\ candidates # <<>>)]

RECURSIVE TrimEnd(_)
TrimEnd(text) ==
    IF text # <<>> /\ Last(text) \in Blank THEN TrimEnd(Front(text)) ELSE text

\* tolerant_match_positions: runs of whole lines equal but for the blanks that
\* end them; a pattern of blanks matches nothing.
TolerantMatches(text, pattern) ==
    LET lines  == Lines(text)
        wanted == Fields(pattern)
        Line(t, fields, i) ==
            TrimEnd(SelectSeq(Slice(t, fields[i]), LAMBDA c : c # Newline))
        Fits(i) == \A j \in DOMAIN wanted :
                     Line(text, lines, i + j - 1) = Line(pattern, wanted, j)
        from[i \in 1 .. Len(lines) + 1] ==
            IF i + Len(wanted) > Len(lines) + 1 THEN <<>>
            ELSE IF Fits(i)
                 THEN << <<lines[i][1], lines[i + Len(wanted) - 1][2]>> >>
                      \o from[i + Len(wanted)]
            ELSE from[i + 1]
    IN IF \A j \in DOMAIN pattern : pattern[j] \in Blank THEN <<>> ELSE from[1]

-----------------------------------------------------------------------------
\* ---- edit_file and write_file

\* replace_using_positions, replace_normalized_matches and replace_spans.
ReplaceSpans(text, spans, new) ==
    LET to[i \in 0 .. Len(spans)] ==
          IF i = 0 THEN [text |-> <<>>, at |-> <<>>, last |-> 1]
          ELSE LET kept == to[i - 1].text \o Slice(text, <<to[i - 1].last, spans[i][1]>>)
               IN  [text |-> kept \o new,
                    at   |-> Append(to[i - 1].at, Len(kept) + 1),
                    last |-> spans[i][2]]
        all == to[Len(spans)]
    IN [text |-> all.text \o Slice(text, <<all.last, Len(text) + 1>>), at |-> all.at]

\* A file: none, one that is not UTF-8, or a text.
NoFile     == [kind |-> "none", text |-> <<>>]
BinaryFile == [kind |-> "binary", text |-> <<>>]
File(text) == [kind |-> "text", text |-> text]

Refuse(file, error) == [outcome |-> error, file |-> file, count |-> 0, at |-> 0]

Done(text, count, at) == [outcome |-> "ok", file |-> File(text), count |-> count, at |-> at]

\* A pass that found places: one, unless all are to be replaced.
ReplaceFound(file, spans, new, all) ==
    IF Len(spans) > 1 /\ ~all THEN Refuse(file, "many")
    ELSE LET replaced == ReplaceSpans(file.text, spans, new)
         IN  Done(replaced.text, Len(spans), Head(replaced.at))

\* edit_file: the text itself, then with confusables, then with blanks that end
\* lines left out.  A file that cannot be read as text counts as empty when one
\* is to be created.
Edit(file, old, new, all) ==
    LET exact      == Matches(file.text, old)
        normalized == NormalizedMatches(file.text, old)
        tolerant   == TolerantMatches(file.text, old)
    IN  IF old = <<>>
        THEN IF file.text # <<>> THEN Refuse(file, "exists") ELSE Done(new, 0, 1)
        ELSE IF old = new THEN Refuse(file, "identical")
        ELSE IF file.kind # "text" THEN Refuse(file, "unreadable")
        ELSE IF exact # <<>> THEN ReplaceFound(file, exact, new, all)
        ELSE IF normalized.ambiguous THEN Refuse(file, "ambiguous")
        ELSE IF normalized.spans # <<>> THEN ReplaceFound(file, normalized.spans, new, all)
        ELSE IF tolerant # <<>> THEN ReplaceFound(file, tolerant, new, all)
        ELSE Refuse(file, "not_found")

\* write_file, whatever was there; parent directories are made.
Write(content) == File(content)

\* compute_line_range and render_snippet: the lines shown of an edited text,
\* from three before the replacement to three after it.
ContextLines == 3

Snippet(text, new, at) ==
    LET first == Cardinality({i \in 1 .. at - 1 : text[i] = Newline})
        last  == first + Max({Len(Lines(new)), 1}) - 1
    IN  Max({first - ContextLines, 0}) + 1
          .. Min({last + ContextLines, Max({Len(Lines(text)), 1}) - 1}) + 1

-----------------------------------------------------------------------------
\* ---- read_file

\* resolve_read_start_line: offsets below zero count from the end, where a text
\* that does not end its last line has one field more than lines.
StartLine(text, offset) ==
    IF offset = 0 THEN 1
    ELSE IF offset > 0 THEN offset
    ELSE Max({Len(Fields(text)) + (IF text # <<>> /\ ~EndsLine(text) THEN 1 ELSE 0)
                + offset + 1, 1})

\* extract_file_content_lines: the numbers of the lines shown; a text that ends
\* its last line has an empty one after it.
ShownLines(text, offset, limit) ==
    LET start == StartLine(text, offset)
        count == IF text = <<>> THEN 1 ELSE Len(Lines(text)) + (IF EndsLine(text) THEN 1 ELSE 0)
    IN  {i \in start .. start + limit - 1 : i <= count}

\* The footer of read_file: the lines said to be shown, if any are left out.
Footer(text, offset, limit) ==
    LET start == StartLine(text, offset)
        total == Len(Lines(text))
        shown == Min({start + limit - 1, Max({total, 1})})
    IN  IF start > 1 \/ shown < total THEN <<start, shown>> ELSE <<>>
=============================================================================
