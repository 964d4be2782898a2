----------------------------- MODULE FileTrees -----------------------------
(***************************************************************************)
(* Trees of files as the tools see them: the paths the sandbox lets through *)
(* (tools/fs.rs), the listing of a directory within a budget               *)
(* (list_dir.rs), the lines grep finds (grep.rs, binary.rs), and the pages *)
(* of a log (monitor.rs, agent/task_manager.rs).  A path is a sequence of  *)
(* names.                                                                  *)
(***************************************************************************)
EXTENDS Integers, Sequences, FiniteSets

LOCAL INSTANCE SequencesExt
LOCAL INSTANCE FiniteSetsExt
LOCAL INSTANCE Functions

-----------------------------------------------------------------------------
\* ---- Sandbox.resolve

\* normalize_lexical: ".." takes away the name before it; at "/" it stays.
Lexical(path) ==
    FoldLeft(LAMBDA out, name :
               IF name = "." THEN out
               ELSE IF name = ".." /\ out # <<>> /\ Last(out) # ".." THEN Front(out)
               ELSE Append(out, name),
             <<>>, path)

Nowhere == <<"nowhere">>

\* canonicalize, in a file system of directories and files and of links to some
\* of them: where a path really leads.
Canonical(fs, path) ==
    FoldLeft(LAMBDA at, name :
               LET next == Append(at, name) IN
               IF at = Nowhere \/ (next \notin fs.entries /\ next \notin DOMAIN fs.links)
               THEN Nowhere
               ELSE IF next \in DOMAIN fs.links THEN fs.links[next] ELSE next,
             <<>>, path)

\* resolve: within the root as it is written, and where it really leads, or
\* where its deepest ancestor that exists does.
SandboxResolve(fs, root, absolute, path) ==
    LET normal   == Lexical(IF absolute THEN path ELSE root \o path)
        existing == Max({n \in 0 .. Len(normal) : Canonical(fs, SubSeq(normal, 1, n)) # Nowhere})
        real     == Canonical(fs, SubSeq(normal, 1, existing))
    IN  IF IsPrefix(root, normal) /\ IsPrefix(root, real)
        THEN real \o SubSeq(normal, existing + 1, Len(normal))
        ELSE Nowhere

-----------------------------------------------------------------------------
\* ---- list_dir: a tree is the paths below the directory, each a directory or a
\* file; the walk yields them, parents first.

\* build_tree_with_limit: what lies in the directory itself, then as much of the
\* rest as the limit allows.
BuildTree(walk, limit) ==
    LET Top(e)  == Len(e.path) = 1
        seeded  == SelectSeq(walk, Top)
        deeper  == SelectSeq(walk, LAMBDA e : ~Top(e))
        kept    == Range(SubSeq(seeded, 1, Min({limit, Len(seeded)})))
                     \cup Range(SubSeq(deeper, 1, Min({limit, Len(deeper)})))
        above   == {SubSeq(e.path, 1, n) : <<e, n>> \in
                      {<<e, n>> \in kept \X (1 .. 3) : n < Len(e.path)}}
    IN  [dirs  |-> {e.path : e \in {e \in kept : e.dir}} \cup above,
         files |-> {e.path : e \in {e \in kept : ~e.dir}},
         cut   |-> Len(seeded) > limit \/ Len(deeper) > limit]

\* Characters of a line, per level of indentation and for what it says.
Indent       == 2
NameWidth    == 4
SummaryWidth == 12

Children(tree, dir) ==
    {p \in tree.dirs \cup tree.files : Len(p) = Len(dir) + 1 /\ IsPrefix(dir, p)}

Subdirs(tree, dir) ==
    SetToSortSeq(Children(tree, dir) \cap tree.dirs, LAMBDA a, b : Last(a) < Last(b))

\* summary_char_cost: the kinds of files below a directory that is not opened.
SummaryCost(tree, dir) ==
    IF \E f \in tree.files : IsPrefix(dir, f)
    THEN Indent * (Len(dir) + 1) + SummaryWidth ELSE 0

\* subitem_line, with the summary of a directory that is not opened.
LineCost(tree, path) ==
    Indent * Len(path) + NameWidth
      + (IF path \in tree.dirs THEN SummaryCost(tree, path) ELSE 0)

\* render_expanded, when nothing below is opened.
ExpandedCost(tree, dir) == MapThenSumSet(LAMBDA p : LineCost(tree, p), Children(tree, dir))

\* budget_expand: directories are opened level by level while what they hold,
\* for the summary it replaces, fits in what remains.
RECURSIVE OpenDirs(_, _, _, _)
OpenDirs(tree, queue, opened, remaining) ==
    IF queue = <<>> THEN opened
    ELSE LET dir  == Head(queue)
             left == remaining + SummaryCost(tree, dir) - ExpandedCost(tree, dir)
         IN  IF left < 0 THEN OpenDirs(tree, Tail(queue), opened, remaining)
             ELSE OpenDirs(tree, Tail(queue) \o Subdirs(tree, dir), opened \cup {dir}, left)

\* render_truncated_root: the items of a directory too large to list whole, as
\* many as fit.
RECURSIVE FittingItems(_, _, _)
FittingItems(tree, items, remaining) ==
    IF items = <<>> \/ LineCost(tree, Head(items)) > remaining THEN <<>>
    ELSE <<Head(items)>> \o FittingItems(tree, Tail(items),
                                         remaining - LineCost(tree, Head(items)))

SortedItems(tree, dir) == SetToSortSeq(Children(tree, dir), LAMBDA a, b : Last(a) < Last(b))

\* The directories opened, and the items shown of a root that is not.
Listing(tree, budget) ==
    LET left == budget - ExpandedCost(tree, <<>>) IN
    IF left < 0
    THEN [opened |-> {}, items |-> FittingItems(tree, SortedItems(tree, <<>>), budget)]
    ELSE [opened |-> OpenDirs(tree, Subdirs(tree, <<>>), {<<>>}, left), items |-> <<>>]

-----------------------------------------------------------------------------
\* ---- grep

\* is_binary, of a file's extension and the bytes it begins with.
IsBinary(knownExtension, sample) ==
    \/ knownExtension
    \/ "nul" \in Range(sample)
    \/ 10 * Cardinality({i \in DOMAIN sample : sample[i] = "control"}) > 3 * Len(sample)

\* search_file_lines in content mode: the lines of a file shown for the matching
\* ones, in order.  A match inside the lines shown after the one before it is not
\* shown again, nor are the lines after it.
RECURSIVE ShowMatches(_, _, _, _, _)
ShowMatches(matches, count, before, after, lastEnd) ==
    IF matches = <<>> THEN <<>>
    ELSE LET i     == Head(matches)
             start == Max({i - before, 1, lastEnd + 1})
             end   == Min({i + after, count})
         IN  IF start > i THEN ShowMatches(Tail(matches), count, before, after, Max({i, lastEnd}))
             ELSE [k \in 1 .. end - start + 1 |->
                      [line |-> start + k - 1, match |-> start + k - 1 = i]]
                  \o ShowMatches(Tail(matches), count, before, after, end)

\* A file's result in each mode.
SearchFile(file, mode, before, after) ==
    LET matches == SelectSeq([i \in 1 .. file.lines |-> i], LAMBDA i : i \in file.matching) IN
    IF file.binary \/ matches = <<>> THEN <<>>
    ELSE CASE mode = "files_with_matches" -> <<"file">>
           [] mode = "count" -> <<Len(matches)>>
           [] mode = "content" -> ShowMatches(matches, file.lines, before, after, 0)

\* execute, on one file: the entries beyond the limit are left out.
SearchOne(file, mode, before, after, limit) ==
    LET found == SearchFile(file, mode, before, after)
    IN  [entries   |-> SubSeq(found, 1, Min({limit, Len(found)})),
         truncated |-> Len(found) > limit]

\* execute, on a directory: the walk stops when the limit is reached.
SearchTree(files, mode, before, after, limit) ==
    LET found == FlattenSeq([i \in DOMAIN files |-> SearchFile(files[i], mode, before, after)])
    IN  [entries   |-> SubSeq(found, 1, Min({limit, Len(found)})),
         truncated |-> Len(found) >= limit]

\* The numbers that head the output.
HeadLimit(asked, mode) ==
    LET content == mode = "content" IN
    IF asked = 0 THEN IF content THEN 200 ELSE 500
    ELSE Min({asked, IF content THEN 2000 ELSE 10000})

CountMatches(entries) == Len(SelectSeq(entries, LAMBDA e : e.match))

\* first_idx_exceed_cum_limit: entries are given whole while they fit.
RECURSIVE FittingEntries(_, _)
FittingEntries(widths, budget) ==
    IF widths = <<>> \/ Head(widths) + 1 > budget THEN 0
    ELSE 1 + FittingEntries(Tail(widths), budget - Head(widths) - 1)

-----------------------------------------------------------------------------
\* ---- monitor, and get_task_logs

NoOffset == -1

\* The lines after the first a and up to b, as <<a, b>>, of those that pass the
\* filter; b is the next offset.
LogPage(total, offset, max, tail) ==
    IF offset # NoOffset
    THEN LET start == Min({offset, total}) IN <<start, Min({start + max, total})>>
    ELSE IF tail THEN <<Max({total - max, 0}), total>>
    ELSE <<0, Min({max, total})>>

\* Where an automatic target looks.
MonitorTarget(task, path, event) ==
    IF task THEN "task" ELSE IF path THEN "file" ELSE IF event THEN "host" ELSE "file"
=============================================================================
