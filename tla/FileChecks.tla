----------------------------- MODULE FileChecks -----------------------------
(***************************************************************************)
(* What the file tools promise, checked over bounded texts and trees.      *)
(* TLC evaluates these assumptions in every run that extends this module.  *)
(***************************************************************************)
LOCAL INSTANCE Integers
LOCAL INSTANCE Sequences
LOCAL INSTANCE FiniteSets
LOCAL INSTANCE SequencesExt
LOCAL INSTANCE FiniteSetsExt
LOCAL INSTANCE Functions
LOCAL INSTANCE TLC
LOCAL INSTANCE FileText
LOCAL INSTANCE FileTrees

SomeChars    == {"a", "dash", "emdash", "space", Newline}
SomeTexts    == BoundedSeq(SomeChars, 3)
SomePatterns == BoundedSeq(SomeChars, 2) \ {<<>>}
SomeWords    == {<<"b">>, <<>>, <<"a">>}

EditOnce(text, old, new) == Edit(File(text), old, new, FALSE)

\* An edit changes one span of the file and nothing else; what it replaced is
\* the old text, but for confusables and for blanks that end lines.
ASSUME EditsOnePlace ==
    \A text \in SomeTexts, old \in SomePatterns, new \in SomeWords :
        LET edit == EditOnce(text, old, new) IN
        edit.outcome = "ok" =>
            \E to \in edit.at .. Len(text) + 1 :
                LET replaced == Slice(text, <<edit.at, to>>)
                    Bare(t)  == SelectSeq(t, LAMBDA c : c \notin Blank)
                IN  /\ edit.file.text = Slice(text, <<1, edit.at>>) \o new
                                          \o Slice(text, <<to, Len(text) + 1>>)
                    /\ \/ Normalize(replaced) = Normalize(old)
                       \/ Bare(replaced) = Bare(old)

\* A text that is in the file is replaced where it is, and only when it is in
\* one place; a text that overlaps itself may be in two.
Places(text, old) == {i \in 1 .. Len(text) : IsAt(text, old, i)}
Borders(old)      == \E k \in 1 .. Len(old) - 1 : IsAt(old, SubSeq(old, 1, k), Len(old) - k + 1)

ASSUME ExactIsUnique ==
    \A text \in SomeTexts, old \in SomePatterns, new \in SomeWords :
        LET edit == EditOnce(text, old, new) IN
        Places(text, old) # {} /\ edit.outcome = "ok" =>
            /\ edit.at \in Places(text, old)
            /\ ~Borders(old) => Places(text, old) = {edit.at}

\* An edit that is taken back restores the file, but for texts that overlap.
ASSUME EditUndone ==
    \A text \in SomeTexts, old \in SomePatterns, new \in {<<"b">>, <<"a">>, <<"a", "a">>} :
        LET edit == EditOnce(text, old, new)
            back == EditOnce(edit.file.text, new, old)
        IN  /\ Places(text, old) # {} /\ edit.outcome = "ok"
            /\ back.outcome = "ok" /\ ~Borders(new)
            => back.file.text = text

\* When all are replaced, none is left, unless the new text brings it back.
ASSUME AllReplaced ==
    \A text \in SomeTexts, old \in SomePatterns :
        LET edit == Edit(File(text), old, <<"b">>, TRUE) IN
        edit.outcome = "ok" => Places(edit.file.text, old) = {}

\* The lines shown after an edit are lines of the new file, and hold the place.
ASSUME SnippetShowsEdit ==
    \A text \in SomeTexts, old \in SomePatterns, new \in SomeWords \cup {<<"b", Newline, "b">>} :
        LET edit  == EditOnce(text, old, new)
            shown == Snippet(edit.file.text, new, edit.at)
            lines == Max({Len(Lines(edit.file.text)), 1})
        IN  edit.outcome = "ok" =>
                /\ shown # {} /\ shown \subseteq 1 .. lines
                /\ Min({Cardinality({i \in 1 .. edit.at - 1 : edit.file.text[i] = Newline}) + 1,
                        lines}) \in shown

\* Reading on from where the footer says lines ended shows every line once.
ASSUME PagesCover ==
    \A text \in BoundedSeq({"a", Newline}, 5), limit \in 1 .. 3 :
        LET total == Len(Lines(text))
            pages == {p \in 0 .. total : p * limit < Max({total, 1})}
            Page(p) == ShownLines(text, p * limit + 1, limit)
        IN  /\ 1 .. total \subseteq UNION {Page(p) : p \in pages}
            /\ \A p, q \in pages : p # q => Page(p) \cap Page(q) = {}
            /\ \A p \in pages : p * limit + limit < total =>
                  Footer(text, p * limit + 1, limit) = <<p * limit + 1, p * limit + limit>>

\* A negative offset names the line that many before the end, where the end is
\* past the last line.
ASSUME FromTheEnd ==
    \A text \in BoundedSeq({"a", Newline}, 4) \ {<<>>}, k \in 1 .. 4 :
        StartLine(text, -k) = Max({Len(Lines(text)) + 2 - k, 1})

-----------------------------------------------------------------------------
\* A file system: a root, one directory and one file in it, a directory beside
\* it, and links from the root to each.
SomeEntries == {<<>>, <<"root">>, <<"root", "d">>, <<"root", "d", "f">>, <<"out">>, <<"out", "f">>}
SomeLinks   == {<<"root", "in">> :> <<"root", "d">>, <<"root", "away">> :> <<"out">>,
                <<"root", "d", "up">> :> <<"root">>}
SomePaths   == BoundedSeq({"d", "f", "in", "away", "up", "..", ".", "root", "out"}, 3)
SomeFiles   == {[entries |-> SomeEntries, links |-> l] : l \in SomeLinks}

\* A path that is let through leads into the root, whatever it is written as,
\* and is let through again, to the same place, when it is given as it is
\* shown to the model.
ASSUME PathsStayInside ==
    \A fs \in SomeFiles, path \in SomePaths \ {<<>>}, absolute \in BOOLEAN :
        LET real == SandboxResolve(fs, <<"root">>, absolute, path) IN
        real # Nowhere =>
            /\ IsPrefix(<<"root">>, real)
            /\ ".." \notin Range(real)
            /\ SandboxResolve(fs, <<"root">>, TRUE, real) = real
            /\ SandboxResolve(fs, <<"root">>, FALSE, Tail(real)) = real

\* Trees of two levels of directories, walked parents first.
Item(path, dir) == [path |-> path, dir |-> dir]
SomeWalks ==
    LET all == <<Item(<<1>>, TRUE), Item(<<1, 1>>, FALSE), Item(<<1, 2>>, TRUE),
                 Item(<<1, 2, 1>>, FALSE), Item(<<1, 2, 2>>, FALSE), Item(<<2>>, TRUE),
                 Item(<<2, 1>>, TRUE), Item(<<2, 1, 1>>, FALSE), Item(<<3>>, FALSE)>>
        Closed(s) == \A i \in s : \A j \in DOMAIN all :
                        IsStrictPrefix(all[j].path, all[i].path) => j \in s
    IN  {SelectSeq(all, LAMBDA e : e \in {all[i] : i \in s}) :
           s \in {s \in SUBSET DOMAIN all : Closed(s)}}

\* What a listing takes: its lines, and the summaries of what it does not open.
Rendered(tree, opened) ==
    MapThenSumSet(LAMBDA p : LineCost(tree, p)
                               - (IF p \in opened THEN SummaryCost(tree, p) ELSE 0),
                  UNION {Children(tree, d) : d \in opened})

\* A listing keeps to its budget, opens nothing in what it has not opened, and
\* leaves nothing out but what the limits of the walk did when all fits.
ASSUME ListingFits ==
    \A walk \in SomeWalks, limit \in {2, 9}, budget \in {20, 50, 80, 110, 200} :
        LET tree    == BuildTree(walk, limit)
            listing == Listing(tree, budget)
        IN  /\ listing.opened # {} => Rendered(tree, listing.opened) <= budget
            /\ FoldLeft(LAMBDA n, p : n + LineCost(tree, p), 0, listing.items) <= budget
            /\ \A d \in listing.opened \ {<<>>} : Front(d) \in listing.opened
            /\ ~tree.cut => tree.dirs \cup tree.files = {walk[i].path : i \in DOMAIN walk}
            /\ \A p \in tree.dirs \cup tree.files : Len(p) > 1 => Front(p) \in tree.dirs
            /\ budget = 200 /\ limit = 9 => listing.opened = tree.dirs \cup {<<>>}

\* grep shows every matching line, in order and none twice, and no line that is
\* not near one; without lines of context its count is right.
ASSUME MatchesShown ==
    \A count \in 1 .. 6 : \A matching \in SUBSET (1 .. count), before, after \in 0 .. 2 :
        LET shown == SearchFile([lines |-> count, matching |-> matching, binary |-> FALSE],
                                "content", before, after)
            lines == {shown[i].line : i \in DOMAIN shown}
        IN  /\ \A i \in 1 .. Len(shown) - 1 : shown[i].line < shown[i + 1].line
            /\ matching \subseteq lines
            /\ \A l \in lines : \E m \in matching : m - before <= l /\ l <= m + after
            /\ \A i \in DOMAIN shown : shown[i].match => shown[i].line \in matching
            /\ after = 0 => CountMatches(shown) = Cardinality(matching)

\* A search that does not say it was cut has found everything; what it gives is
\* the beginning of everything, no longer than asked.
ASSUME CutIsSaid ==
    \A a, b \in SUBSET (1 .. 3), limit \in 1 .. 4 :
        LET files  == <<[lines |-> 3, matching |-> a, binary |-> FALSE],
                        [lines |-> 3, matching |-> b, binary |-> FALSE]>>
            all    == FlattenSeq([i \in 1 .. 2 |-> SearchFile(files[i], "content", 0, 1)])
            search == SearchTree(files, "content", 0, 1, limit)
            one    == SearchOne(files[1], "content", 0, 1, limit)
        IN  /\ IsPrefix(search.entries, all) /\ Len(search.entries) <= limit
            /\ ~search.truncated => search.entries = all
            /\ one.truncated <=> one.entries # SearchFile(files[1], "content", 0, 1)

\* Polling a log that grows, each time from the next offset, gives each line
\* once and in the end all of them.
ASSUME PollsCover ==
    \A growth \in [1 .. 4 -> 0 .. 3], max \in 1 .. 3 :
        LET Total(i) == FoldLeft(LAMBDA a, b : a + b, 0, SubSeq(growth, 1, i))
            next[i \in 0 .. 4] == IF i = 0 THEN 0
                                  ELSE LogPage(Total(i), next[i - 1], max, TRUE)[2]
        IN  \A i \in 1 .. 4 :
              LET page == LogPage(Total(i), next[i - 1], max, TRUE) IN
              /\ page[1] = next[i - 1]
              /\ page[2] < Total(i) => page[2] - page[1] = max
=============================================================================
