--------------------------- MODULE WorkspaceTools ---------------------------
(***************************************************************************)
(* The tools a coding agent works with (agent/tools.py), as operators on   *)
(* the files of its workspace: a function from paths to sequences of       *)
(* lines.  A path is an integer, its place in sorted order; 0 is the root. *)
(* Directories below the root, and text inside a line, are left out.  A    *)
(* tool answers a record [files, reply, sub]: what the workspace holds     *)
(* after it, what the model is told, and what was submitted.               *)
(***************************************************************************)
EXTENDS Integers, FiniteSets, SequencesExt, TLC

CONSTANTS Inside,     \* paths that resolve inside the workspace
          Hidden,     \* those with a dot name or in an ignored directory
          ListCap, MatchCap, ReadCap  \* 200 files, 50 matches, 200 lines

Root == 0
Null == 999          \* a JSON null, or /dev/null in a patch
Error == <<"error">>

Says(ws, reply) == [files |-> ws, reply |-> reply, sub |-> "none"]
ToolError(ws)   == Says(ws, Error)

_safe_path(p) == p \in Inside
IsFile(ws, p) == _safe_path(p) /\ p \in DOMAIN ws
Exists(ws, p) == _safe_path(p) /\ (p = Root \/ p \in DOMAIN ws)
_is_visible_source(p) == p \notin Hidden
FirstOf(S, n) == {x \in S : Cardinality({y \in S : y < x}) < n}

\* The tool schemas: every tool offered to the model, with the arguments it
\* must give.
TOOLS == [list_files |-> {}, inspect_tree |-> {}, read_file |-> {"path"},
          rg |-> {"pattern"}, apply_patch |-> {"patch"},
          replace_text |-> {"path", "old_text", "new_text"},
          write_file |-> {"path", "content"}, run_command |-> {"command"},
          request_user_input |-> {"prompt"}, response_to_user |-> {"message"},
          submit |-> {"status"}]

list_files(ws, p) ==
  IF ~Exists(ws, p) THEN ToolError(ws)
  ELSE LET found == IF p # Root THEN {p}
                    ELSE {f \in DOMAIN ws : _is_visible_source(f)}
       IN  Says(ws, <<"files", FirstOf(found, ListCap)>>)

inspect_tree(ws, p) ==
  IF ~Exists(ws, p) THEN ToolError(ws)
  ELSE LET rows == {f \in DOMAIN ws : p = Root /\ _is_visible_source(f)}
       IN  Says(ws, <<"tree", FirstOf(rows, ListCap),
                      Cardinality(rows) >= ListCap>>)

read_file(ws, p, start_line, max_lines) ==
  LET start == Max({start_line, 1})
      count == Min({Max({max_lines, 1}), ReadCap})
  IN  IF ~IsFile(ws, p) THEN ToolError(ws)
      ELSE LET last == Min({start + count - 1, Len(ws[p])})
           IN  Says(ws, <<"lines", start, SubSeq(ws[p], start, last)>>)

\* pattern is the set of lines it matches; NoRegex stands for one that is empty
\* or does not compile.
NoRegex == {"("}
rg(ws, pattern, p) ==
  IF pattern = NoRegex \/ ~Exists(ws, p) THEN ToolError(ws)
  ELSE LET where == {f \in DOMAIN ws : (p = Root \/ p = f) /\ _is_visible_source(f)}
           all == {<<f, n>> \in where \X (1 .. 9) :
                      n <= Len(ws[f]) /\ ws[f][n] \in pattern}
           before(a, b) == a[1] < b[1] \/ (a[1] = b[1] /\ a[2] < b[2])
       IN  Says(ws, <<"matches",
                {m \in all : Cardinality({o \in all : before(o, m)}) < MatchCap},
                Cardinality(all) >= MatchCap>>)

replace_text(ws, p, old, new, count) ==
  IF ~IsFile(ws, p) THEN ToolError(ws)
  ELSE LET hits  == {i \in DOMAIN ws[p] : ws[p][i] = old}
           limit == Max({count, 0})
           n == IF limit = 0 THEN Cardinality(hits) ELSE limit
       IN  IF hits = {} THEN ToolError(ws)
           ELSE Says([ws EXCEPT ![p] = [i \in DOMAIN @ |->
                        IF i \in FirstOf(hits, n) THEN new ELSE @[i]]],
                     <<"replaced", Cardinality(FirstOf(hits, n))>>)

write_file(ws, p, content, append) ==
  IF ~_safe_path(p) \/ p = Root THEN ToolError(ws)
  ELSE LET kept == IF append /\ p \in DOMAIN ws THEN ws[p] ELSE <<>>
       IN  Says((p :> kept \o content) @@ ws, <<"written", p>>)

(***************************************************************************)
(* Unified diffs.  A hunk is [at, body]: the old start line of its header, *)
(* and its lines <<mark, text>>.  A section is one file of the patch:      *)
(* [whole, old, new, hunks], whole when a +++ line follows the --- line.   *)
(***************************************************************************)
\* One line of a hunk against the original, as the cursor stands at it.
HunkLine(original, s, line) ==
  CASE ~s.ok \/ line[1] = "\\" -> s
    [] s.ok /\ line[1] = "+" -> [s EXCEPT !.out = Append(@, line[2])]
    [] s.ok /\ line[1] \in {" ", "-"} ->
         IF s.cursor >= Len(original) \/ original[s.cursor + 1] # line[2]
         THEN [s EXCEPT !.ok = FALSE]
         ELSE [s EXCEPT !.cursor = @ + 1,
                        !.out = IF line[1] = " " THEN Append(@, line[2]) ELSE @]
    [] OTHER -> [s EXCEPT !.ok = FALSE]

\* The lines up to the hunk are copied; a plausible bug forgets that they
\* were, and copies from the top again.
CopyUpTo(original, s, at) ==
  [s EXCEPT !.out = @ \o SubSeq(original, s.cursor + 1, Min({at, Len(original)})),
            !.cursor = at]
CopyFromTop(original, s, at) ==
  [s EXCEPT !.out = @ \o SubSeq(original, 1, Min({at, Len(original)})),
            !.cursor = at]
SkipToHunk(original, s, at) == CopyUpTo(original, s, at)

_apply_file_hunks(original, hunks) ==
  LET Line(s, line) == HunkLine(original, s, line)
      Hunk(s, h) == IF ~s.ok THEN s
                    ELSE FoldLeft(Line, SkipToHunk(original, s, Max({h.at - 1, 0})),
                                  h.body)
      end == FoldLeft(Hunk, [out |-> <<>>, cursor |-> 0, ok |-> hunks # <<>>], hunks)
  IN  [ok  |-> end.ok,
       out |-> end.out \o SubSeq(original, end.cursor + 1, Len(original))]

Target(sec) == IF sec.new # Null THEN sec.new ELSE sec.old
Content(ws, p) == IF p \in DOMAIN ws THEN ws[p] ELSE <<>>

\* Sections are applied one after the other, each file written as its section
\* ends: an error stops the patch and leaves the files already written.
PatchSection(s, sec) ==
  LET p == Target(sec)
      updated == _apply_file_hunks(Content(s.files, p), sec.hunks)
  IN  CASE ~s.ok -> s
        [] s.ok /\ (~sec.whole \/ ~_safe_path(p) \/ p = Root \/ ~updated.ok) ->
             [s EXCEPT !.ok = FALSE]
        [] OTHER -> [s EXCEPT !.files = (p :> updated.out) @@ @,
                              !.touched = Append(@, p)]

ApplySection(s, sec) == PatchSection(s, sec)

apply_unified_patch(ws, patch) ==
  LET end == FoldLeft(ApplySection, [files |-> ws, ok |-> TRUE, touched |-> <<>>], patch)
  IN  IF end.ok /\ end.touched # <<>>
      THEN Says(end.files, <<"applied", end.touched>>)
      ELSE ToolError(end.files)

(***************************************************************************)
(* What a unified diff means: each hunk replaces, at its place, the lines  *)
(* it shows as old by the lines it shows as new.  Spliced from the last    *)
(* hunk to the first, no splice moves the place of another.                *)
(***************************************************************************)
Shown(h, marks) == LET kept == SelectSeq(h.body, LAMBDA l : l[1] \in marks)
                   IN  [i \in DOMAIN kept |-> kept[i][2]]
Old(h) == Shown(h, {" ", "-"})
New(h) == Shown(h, {" ", "+"})
Splice(h, file) == SubSeq(file, 1, h.at - 1) \o New(h)
                   \o SubSeq(file, h.at + Len(Old(h)), Len(file))
Meant(original, hunks) == FoldRight(Splice, hunks, original)

\* Hunks in order, none overlapping the next, each showing some old line
\* (a hunk that only inserts has another convention for its start line).
InOrder(hunks) ==
  /\ \A i \in DOMAIN hunks : hunks[i].at > 0 /\ Old(hunks[i]) # <<>>
  /\ \A i \in 1 .. Len(hunks) - 1 :
       hunks[i].at + Len(Old(hunks[i])) <= hunks[i + 1].at
Fits(original, hunks) ==
  \A i \in DOMAIN hunks :
    LET last == hunks[i].at + Len(Old(hunks[i])) - 1
    IN  last <= Len(original)
        /\ SubSeq(original, hunks[i].at, last) = Old(hunks[i])

\* The workspace when the first k sections have landed, and whether the next
\* one can.
Land(ws, sec) == (Target(sec) :> Meant(Content(ws, Target(sec)), sec.hunks)) @@ ws
Landed(ws, patch, k) == FoldLeft(Land, ws, SubSeq(patch, 1, k))
Lands(ws, sec) == /\ sec.whole /\ _safe_path(Target(sec)) /\ Target(sec) # Root
                  /\ sec.hunks # <<>> /\ Fits(Content(ws, Target(sec)), sec.hunks)

(***************************************************************************)
(* A tool call as the model writes it: a name and its arguments.  depth    *)
(* says how the argument text is wrapped: 1 an object, 2 an object inside  *)
(* a JSON string, more a string inside a string, 0 text that is not JSON.  *)
(***************************************************************************)
DefaultCall == [name |-> "list_files", depth |-> 1, path |-> Root, start |-> 1,
                count |-> 80, pattern |-> {}, old |-> "", new |-> "",
                content |-> <<>>, append |-> FALSE, patch |-> <<>>,
                timeout_s |-> 10, outcome |-> 0, status |-> "solved"]

_coerce_int_argument(v) == IF v = Null THEN 0 ELSE v
\* A string is unwrapped only while what it holds looks like an object.
_parse_tool_arguments(call) == call.depth \in {1, 2}

\* A command that removes files is refused; Null stands for its exit status.
_is_dangerous_rm_command(call) == call.outcome = Null

\* A command's own effect on the files is left out; a timeout that is no
\* number raises a TypeError, which run_tool does not catch.
Escapes(call) == _parse_tool_arguments(call)
                 /\ call.name = "run_command" /\ call.timeout_s = Null

\* submit stores the status it is given, a status it was not given as "".
run_tool(ws, call) ==
  LET start == _coerce_int_argument(call.start)
      count == _coerce_int_argument(call.count)
  IN  CASE call.name = "list_files" -> list_files(ws, call.path)
        [] call.name = "inspect_tree" -> inspect_tree(ws, call.path)
        [] call.name = "read_file" -> read_file(ws, call.path, start, count)
        [] call.name = "rg" -> rg(ws, call.pattern, call.path)
        [] call.name = "apply_patch" -> apply_unified_patch(ws, call.patch)
        [] call.name = "replace_text" ->
             replace_text(ws, call.path, call.old, call.new, count)
        [] call.name = "write_file" ->
             write_file(ws, call.path, call.content, call.append)
        [] call.name = "run_command" ->
             IF _is_dangerous_rm_command(call) THEN ToolError(ws)
             ELSE Says(ws, <<"returncode", call.outcome>>)
        [] call.name = "request_user_input" -> Says(ws, Error)  \* no user is there
        [] call.name = "response_to_user" -> Says(ws, <<"delivered">>)
        [] call.name = "submit" ->
             [Says(ws, <<"submitted">>) EXCEPT !.sub = call.status]
        [] OTHER -> ToolError(ws)

_execute_tool_call(ws, call) ==
  IF ~_parse_tool_arguments(call) THEN ToolError(ws) ELSE run_tool(ws, call)
=============================================================================
