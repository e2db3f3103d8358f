---- MODULE HistoryCommands ----
(***************************************************************************)
(* Going through the history while a line is being edited: the history     *)
(* utilities and commands of src/lib/readline/misc.c, the searches of      *)
(* search.c and isearch.c, and histsearch.c.                               *)
(*   hist pos        the_history and history_offset                        *)
(*   saved           _rl_saved_line_for_history                            *)
(*   nsearch         [string, pos]: noninc_search_string ("none" before    *)
(*                   the first), noninc_history_pos                        *)
(*   hsearch         [string, pos, len, anchored, prev]: the state of the  *)
(*                   history-search commands                               *)
(*   isearch         last_isearch_string                                   *)
(* history_base is 1 as long as no entry was dropped, and is left out.     *)
(***************************************************************************)
EXTENDS TextCommands

Current(e) == IF e.pos < Len(e.hist) THEN e.hist[e.pos + 1] ELSE NoLine
AtEnd(e) == e.pos = Len(e.hist)
_rl_alloc_saved_line(e) == [line |-> e.line, data |-> e.undo]
\* A bug to check the properties against: every line left is saved.
rl_maybe_save_line_always(e) == [e EXCEPT !.saved = _rl_alloc_saved_line(e)]
rl_maybe_save_line(e) ==
    IF e.saved = NoLine THEN [e EXCEPT !.saved = _rl_alloc_saved_line(e)] ELSE e

\* A bug to check the properties against: the changed line is not put back.
rl_maybe_replace_line_not(e) == IF AtEnd(e) THEN e ELSE [e EXCEPT !.undo = 0]
rl_maybe_replace_line(e) ==
    IF AtEnd(e) \/ Current(e).data = e.undo THEN e
    ELSE [replace_history_entry(e, e.pos, e.line, e.undo)
            EXCEPT !.saved.data = IF @ = e.undo THEN 0 ELSE @, !.undo = 0]

_rl_unsave_line(e, entry) ==
    LET put == [rl_replace_line(e, entry.line, FALSE) EXCEPT !.undo = entry.data]
    IN At(put, End(put))
rl_maybe_unsave_line(e) ==
    IF e.saved = NoLine THEN e ELSE [_rl_unsave_line(e, e.saved) EXCEPT !.saved = NoLine]

\* The entry at the history position becomes the line, with its undo list.
rl_replace_from_history(e) ==
    LET end == Len(Current(e).line)
        start == e.vi /\ e.map # "insertion"
    IN [e EXCEPT !.line = Current(e).line, !.undo = Current(e).data,
                 !.point = IF start THEN 0 ELSE end,
                 !.mark = IF e.vi THEN end ELSE 0]

_rl_previous_history_internal(e, n) ==
    rl_replace_from_history([e EXCEPT !.pos = Most(@ - n, 0)])
rl_get_previous(e, n) ==
    LET changed == rl_maybe_replace_line(rl_maybe_save_line(e))
    IN IF n = 0 THEN e
       ELSE IF e.pos = 0 THEN [changed EXCEPT !.saved = IF e.saved = NoLine THEN NoLine ELSE @]
       ELSE _rl_previous_history_internal(changed, n)
rl_get_next(e, n) ==
    LET changed == rl_maybe_replace_line(e)
        fell == e.pos + n >= Len(e.hist)
        moved == [changed EXCEPT !.pos = Least(@ + n, Len(e.hist))]
    IN IF n = 0 THEN e
       ELSE IF fell THEN rl_maybe_unsave_line(moved) ELSE rl_replace_from_history(moved)
rl_get_previous_history(e, n) == IF n < 0 THEN rl_get_next(e, -n) ELSE rl_get_previous(e, n)
rl_get_next_history(e, n) == rl_get_previous_history(e, -n)
rl_beginning_of_history(e, n) == rl_get_previous(e, 1 + e.pos)
rl_end_of_history(e, n) ==
    rl_maybe_unsave_line([rl_maybe_replace_line(e) EXCEPT !.pos = Len(e.hist)])
rl_fetch_history(e, n) ==
    LET here == 1 + e.pos
        wanted == IF n >= 0 THEN here - n ELSE -n
    IN CASE ~e.explicit -> rl_beginning_of_history(e, n)
         [] e.explicit /\ wanted \in 1..(here - 1) -> rl_get_previous(e, wanted)
         [] OTHER -> IF e.vi THEN e ELSE rl_beginning_of_history(e, 0)

\* The words of an entry, as the shell would split it: operators, and words
\* whose quotes and parentheses (nest deep, if d is ")") hide the delimiters.
\* "$(" skips a character: the ")" of "$()" closes nothing.
history_word_delimiters == {" ", "TAB", "LF", ";", "&", "(", ")", "|", "<", ">"}
HISTORY_QUOTE_CHARACTERS == {"\"", "'", "BACKQUOTE"}
Byte(s, i) == IF i \in 0..(Len(s) - 1) THEN s[i + 1] ELSE "NUL"
RECURSIVE WordEnd(_, _, _, _)
WordEnd(s, i, d, nest) ==
    LET c == Byte(s, i)
        opens == c \in {"<", ">", "$", "!", "@", "?", "+", "*"} /\ Byte(s, i + 1) = "("
    IN CASE i >= Len(s) -> Len(s)
         [] c = "\\" /\ (d # "'" \/ Byte(s, i + 1) = "LF") -> WordEnd(s, i + 2, d, nest)
         [] nest > 0 /\ c = "(" -> WordEnd(s, i + 1, d, nest + 1)
         [] nest > 0 /\ c = ")" -> WordEnd(s, i + 1, IF nest = 1 THEN "" ELSE d, nest - 1)
         [] nest = 0 /\ d # "" /\ c = d -> WordEnd(s, i + 1, "", 0)
         [] d = "" /\ opens -> WordEnd(s, i + 3, ")", 1)
         [] d = "" /\ ~opens /\ c \in history_word_delimiters -> i
         [] d = "" /\ ~opens /\ c \in HISTORY_QUOTE_CHARACTERS -> WordEnd(s, i + 1, c, 0)
         [] OTHER -> WordEnd(s, i + 1, d, nest)
AfterDigits(s, i) ==
    CHOOSE j \in i..Len(s) : Byte(s, j) \notin Digits /\ \A k \in i..(j - 1) : Byte(s, k) \in Digits
Operator(s, i) ==                                  \* at i: one of < > ; & |
    LET c == Byte(s, i)  peek == Byte(s, i + 1)  fd == AfterDigits(s, Least(i + 2, Len(s)))
    IN CASE peek = c -> i + (IF c = "<" /\ Byte(s, i + 2) \in {"-", "<"} THEN 3 ELSE 2)
         [] peek = "&" /\ c \in {"<", ">"} -> IF Byte(s, fd) = "-" THEN fd + 1 ELSE fd
         [] <<c, peek>> \in {<<"&", ">">>, <<">", "|">>} -> i + 2
         [] peek = "(" /\ c \in {"<", ">"} -> WordEnd(s, i + 2, ")", 1)
         [] OTHER -> i + 1
history_tokenize_word(s, ind) ==
    LET i == AfterDigits(s, ind)                   \* digits: a descriptor, or of a word
    IN CASE Byte(s, ind) \in {"(", ")", "LF"} -> ind + 1
         [] i < Len(s) /\ (Byte(s, i) \in {"<", ">"} \/ (i = ind /\ Byte(s, i) \in {";", "&", "|"})) ->
              Operator(s, i)
         [] OTHER -> WordEnd(s, i, "", 0)
RECURSIVE history_tokenize_internal(_, _)
history_tokenize_internal(s, i) ==
    LET start == CHOOSE j \in i..Len(s) : /\ Byte(s, j) \notin {" ", "TAB", "LF"}
                                          /\ \A k \in i..(j - 1) : Byte(s, k) \in {" ", "TAB", "LF"}
        end == history_tokenize_word(s, start)
    IN IF start = Len(s) THEN <<>> ELSE <<Cut(s, start, end)>> \o history_tokenize_internal(s, end)

\* history_arg_extract on the entry before the current one, skip entries up.
DollarSign == 36                                   \* as an argument: the last word
PreviousArgument(e, n, skip) ==
    LET entry == e.pos - skip
        words == history_tokenize_internal(e.hist[entry].line, 0)
        nth == CASE n = DollarSign -> Len(words)
                 [] n < 0 -> Len(words) + n
                 [] OTHER -> n + 1
    IN IF entry < 1 THEN <<>> ELSE IF nth \in DOMAIN words THEN words[nth] ELSE <<>>

Newest(e) == IF AtEnd(e) THEN Len(e.hist) ELSE e.pos + 1
_rl_revert_previous_lines(e) ==
    LET reverted(x, i) ==
            LET data == x.hist[i].data
                there == [x EXCEPT !.pos = i - 1, !.line = x.hist[i].line, !.undo = data,
                                   !.hist[i].data = 0]
                back == AllUndone(there)
            IN IF data = 0 THEN x
               ELSE [back EXCEPT !.hist[i].line = back.line,
                                 !.kept = IF @ = data THEN 0 ELSE @]
        last == Newest(e)
        done == FoldLeft(reverted, [e EXCEPT !.kept = e.undo], [k \in 1..last |-> last + 1 - k])
    IN rl_replace_line([done EXCEPT !.undo = done.kept, !.kept = 0, !.pos = e.pos],
                       e.line, FALSE)
_rl_revert_all_lines(e) ==
    [_rl_revert_previous_lines([e EXCEPT !.pos = Len(e.hist)]) EXCEPT !.pos = e.pos]

----
(* Searching: the nearest line from index from on, in direction dir, with  *)
(* the string in it; "^" in front anchors it.                              *)

Has(line, i, s) == i >= 0 /\ i + Len(s) <= Len(line) /\ SubSeq(line, i + 1, i + Len(s)) = s
Offsets(line, s) == {i \in 0..Len(line) : Has(line, i, s)}
SetMax(S) == CHOOSE x \in S : \A y \in S : x >= y
SetMin(S) == CHOOSE x \in S : \A y \in S : x <= y

NotFound == [pos |-> -1, col |-> -1]
history_search(e, s, anchored, from, dir) ==
    LET hits == {i \in 0..(Len(e.hist) - 1) :
                   /\ (IF dir < 0 THEN i <= from ELSE i >= from)
                   /\ IF anchored THEN Has(e.hist[i + 1].line, 0, s)
                      ELSE Offsets(e.hist[i + 1].line, s) # {}}
        i == IF dir < 0 THEN SetMax(hits) ELSE SetMin(hits)
        offsets == Offsets(e.hist[i + 1].line, s)
    IN IF hits = {} THEN NotFound
       ELSE [pos |-> i, col |-> CASE anchored -> 0
                                  [] ~anchored /\ dir < 0 -> SetMax(offsets)
                                  [] OTHER -> SetMin(offsets)]
noninc_search_from_pos(e, string, pos, dir) ==
    LET anchored == string # <<>> /\ Head(string) = "^"
        s == IF anchored THEN Tail(string) ELSE string
    IN IF pos \notin 0..Len(e.hist) \/ s = <<>> THEN NotFound
       ELSE history_search(e, s, anchored, pos, dir)

dispose_saved_search_line(e, saved) ==
    IF AtEnd(e) THEN _rl_free_undo_list(e, saved.data) ELSE _rl_unsave_line(e, saved)
make_history_line_current(e, line) ==
    LET put == _rl_fix_point(_rl_replace_text([e EXCEPT !.undo = 0], line, 0, End(e)))
    IN IF e.vi THEN rl_free_undo_list(put) ELSE put

(* The searches that read a string and then search once.                   *)
noninc_dosearch(e, saved, dir, pattern) ==
    LET s == e.nsearch.string
        at == noninc_search_from_pos(e, s, e.nsearch.pos + dir, dir)
        line == e.hist[at.pos + 1].line
        disposed == IF saved = NoLine THEN e ELSE dispose_saved_search_line(e, saved)
        put == make_history_line_current(
                 [disposed EXCEPT !.nsearch.pos = at.pos,
                                  !.pos = IF e.vi THEN at.pos ELSE @], line)
    IN CASE s = <<>> \/ e.nsearch.pos < 0 -> e
         [] at = NotFound -> At(IF saved = NoLine THEN e ELSE _rl_unsave_line(e, saved), 0)
         [] OTHER -> IF ~pattern /\ at.col < End(put)
                     THEN [put EXCEPT !.point = at.col,
                                      !.mark = Least(at.col + Len(s), End(put))]
                     ELSE [put EXCEPT !.point = 0, !.mark = End(put)]

\* Reading the string in the line's place: reading, done or aborted.
RECURSIVE ReadString(_)
ReadString(e) ==
    LET k == NextKey(e)
        read == ReadKey(e)
    IN CASE k \in {EOF, "C-g", "C-c"} -> [how |-> "aborted", e |-> read]
         [] k \in {"RET", "C-j"} -> [how |-> "done", e |-> read]
         [] k \in {"C-h", "RUBOUT"} ->
              IF e.point = 0 THEN [how |-> "aborted", e |-> read]
              ELSE ReadString(_rl_rubout_char(read, 1))
         [] k = "C-w" -> ReadString(rl_unix_word_rubout(read, 1))
         [] k = "C-u" -> ReadString(rl_unix_line_discard(read, 1))
         [] k \in {"C-q", "C-v"} -> ReadString(rl_quoted_insert(read, 1))
         [] k = "PASTE" -> ReadString(rl_bracketed_paste_begin(read, 1))
         [] OTHER -> ReadString(_rl_insert_char(read, 1, k))
\* The context of a search: where it began, and what it looks for.
_rl_scxt_alloc(e) == [save |-> e.pos, last |-> e.pos, point |-> e.point, mark |-> e.mark,
                      prev |-> {}, string |-> <<>>]
_rl_nsearch_init(changed) == [changed EXCEPT !.undo = 0, !.line = <<>>, !.point = 0]
_rl_nsearch_abort(e, saved, c) ==
    _rl_fix_point([_rl_unsave_line(e, saved) EXCEPT !.point = c.point, !.mark = c.mark])
noninc_search(e, dir, pattern) ==
    LET changed == rl_maybe_replace_line(e)
        saved == _rl_alloc_saved_line(changed)
        got == ReadString(_rl_nsearch_init(changed))
        r == [got.e EXCEPT !.mark = e.mark]
        asked == At([rl_free_undo_list([r EXCEPT !.nsearch = [string |-> r.line, pos |-> e.pos]])
                       EXCEPT !.line = <<>>], 0)
    IN CASE got.how = "aborted" -> _rl_nsearch_abort(got.e, saved, _rl_scxt_alloc(e))
         [] got.how = "done" /\ r.point # 0 -> noninc_dosearch(asked, saved, dir, pattern)
         [] OTHER -> IF e.nsearch.string = <<>> THEN r
                     ELSE noninc_dosearch(r, saved, dir, pattern)
rl_noninc_forward_search(e, n) == noninc_search(e, 1, FALSE)
rl_noninc_reverse_search(e, n) == noninc_search(e, -1, FALSE)
rl_noninc_search_again(e, dir) ==
    IF e.nsearch.string = <<>> THEN e ELSE noninc_dosearch(e, NoLine, dir, CommandMode(e))

----
(* The history-search commands: count lines that differ from the one       *)
(* before and begin with, or contain, the text before the cursor.          *)

RECURSIVE Searching(_, _, _, _)
Searching(e, h, n, dir) ==
    LET at == noninc_search_from_pos(e, h.string, h.pos + dir, dir)
        line == e.hist[at.pos + 1].line
        next == [h EXCEPT !.pos = at.pos, !.found = {line}, !.col = at.col, !.prev = {line}]
    IN IF n = 0 THEN h
       ELSE IF at = NotFound
       THEN [h EXCEPT !.col = IF h.pos + dir \in 0..Len(e.hist) THEN -1 ELSE @]
       ELSE Searching(e, next, IF line \in h.prev THEN n ELSE n - 1, dir)
rl_history_search_internal(e, n, dir) ==
    LET changed == rl_maybe_replace_line(e)
        saved == _rl_alloc_saved_line(changed)
        h == Searching(changed, [changed.hsearch EXCEPT !.found = {}], n, dir)
        put == make_history_line_current(dispose_saved_search_line(changed, saved),
                                         CHOOSE line \in h.found : TRUE)
        back == _rl_unsave_line(changed, saved)
        point == CASE h.found = {} \/ h.anchored -> h.len
                   [] OTHER -> IF h.col >= 0 THEN h.col ELSE End(put)
        shown == IF h.found = {} THEN back ELSE put
    IN [shown EXCEPT !.point = point, !.mark = End(shown), !.hsearch = h]
history_search_command(e, n, dir, anchored, family) ==
    LET start == [pos |-> e.pos, len |-> e.point, anchored |-> anchored, prev |-> {},
                  found |-> {}, col |-> -1,
                  string |-> IF e.point = 0 THEN e.hsearch.string
                             ELSE (IF anchored THEN <<"^">> ELSE <<>>) \o Cut(e.line, 0, e.point)]
        begun == IF e.last \in family THEN e ELSE [e EXCEPT !.hsearch = start]
        way == IF n > 0 THEN dir ELSE -dir
    IN CASE n = 0 -> e
         [] n # 0 /\ begun.hsearch.len = 0 -> rl_get_next_history(begun, n * dir)
         [] OTHER -> rl_history_search_internal(begun, IF n < 0 THEN -n ELSE n, way)
Anchored == {"rl_history_search_forward", "rl_history_search_backward"}
Anywhere == {"rl_history_substr_search_forward", "rl_history_substr_search_backward"}
rl_history_search_forward(e, n) == history_search_command(e, n, 1, TRUE, Anchored)
rl_history_search_backward(e, n) == history_search_command(e, n, -1, TRUE, Anchored)
rl_history_substr_search_forward(e, n) == history_search_command(e, n, 1, FALSE, Anywhere)
rl_history_substr_search_backward(e, n) == history_search_command(e, n, -1, FALSE, Anywhere)

----
(* The incremental search.  c is its context: the lines it searches, the   *)
(* string, the line and index it has come to, the line last found.         *)

_rl_isearch_init(e, dir) ==
    LET changed == rl_maybe_replace_line(e)
    IN _rl_scxt_alloc(e) @@
       [e |-> changed, dir |-> dir, pos |-> e.pos, index |-> e.point,
        sline |-> e.line, how |-> "reading",
        lines |-> [i \in DOMAIN changed.hist |-> changed.hist[i].line]
                  \o <<IF changed.saved = NoLine THEN e.line ELSE changed.saved.line>>]

\* From the index on in this line, then in the next lines that differ from
\* the one just found and are long enough.
RECURSIVE Find(_)
Find(c) ==
    LET n == Len(c.string)
        here == {i \in Offsets(c.sline, c.string) :
                   IF c.dir < 0 THEN i <= c.index ELSE i >= c.index}
        left == IF c.dir < 0 THEN Least(c.index, 0)
                ELSE Most(c.index, Len(c.sline) - n + 1)
        beyond == {q \in 0..(Len(c.lines) - 1) : IF c.dir < 0 THEN q < c.pos ELSE q > c.pos}
        next == {q \in beyond : c.lines[q + 1] \notin c.prev /\ n <= Len(c.lines[q + 1])}
        q == IF c.dir < 0 THEN SetMax(next) ELSE SetMin(next)
        tried == IF beyond = {} THEN c.sline
                 ELSE c.lines[1 + IF c.dir < 0 THEN SetMin(beyond) ELSE SetMax(beyond)]
        found == IF c.dir < 0 THEN SetMax(here) ELSE SetMin(here)
        shown == [rl_replace_line(c.e, c.lines[c.pos + 1], FALSE)
                    EXCEPT !.point = found, !.mark = found + n]
    IN CASE n = 0 -> [c EXCEPT !.pos = c.last]
         [] n > 0 /\ here # {} -> [c EXCEPT !.e = shown, !.index = found, !.last = c.pos,
                                            !.prev = {c.lines[c.pos + 1]}]
         [] n > 0 /\ here = {} /\ next # {} ->
              Find([c EXCEPT !.pos = q, !.sline = c.lines[q + 1],
                             !.index = IF c.dir < 0 THEN Len(c.lines[q + 1]) - n ELSE 0])
         [] OTHER -> [c EXCEPT !.pos = c.last, !.sline = tried,
                               !.index = IF left \in 0..Len(tried) THEN left ELSE 0]

\* What a key means to the search: the opcodes -1 to -8, or a character.
Opcode(c, k) ==
    LET f == Bound(c.e, k)
        reverse == c.dir < 0
    IN CASE k = EOF -> "fail"
         [] f = "rl_reverse_search_history" -> IF reverse THEN "again" ELSE "turn"
         [] f = "rl_forward_search_history" -> IF reverse THEN "turn" ELSE "again"
         [] f = "rl_rubout" -> "rubout"
         [] k = "C-g" \/ f = "rl_abort" -> "abort"
         [] k = "C-w" \/ f = "rl_unix_word_rubout" -> "word"
         [] k = "C-y" \/ f = "rl_yank" -> "rest"
         [] f = "rl_bracketed_paste_begin" -> "paste"
         [] k = "C-v" \/ f = "rl_quoted_insert" -> "quote"
         [] k \in Printable -> "add"
         [] OTHER -> "end"
\* ESC and C-j are isearch-terminators; any other key runs when the search is over.
Ended(c) ==
    IF NextKey(c.e) \in {"ESC", "C-j"} THEN [c EXCEPT !.how = "ended", !.e = ReadKey(@)]
    ELSE [c EXCEPT !.how = "ended", !.e.pending = TRUE]
SearchedAgain(c) ==
    IF c.string = <<>> THEN [c EXCEPT !.string = c.e.isearch]
    ELSE IF c.dir < 0 /\ c.index >= 0 THEN [c EXCEPT !.index = @ - 1]
    ELSE IF c.index # Len(c.sline) THEN [c EXCEPT !.index = @ + 1] ELSE c
Aborted(c) ==
    LET back == rl_replace_line(c.e, c.lines[c.save + 1], FALSE)
    IN [c EXCEPT !.how = "left",
                 !.e = _rl_fix_point([back EXCEPT !.point = c.point, !.mark = c.mark])]
\* The rest of the word, or of the line, behind what is found.
WordBehind(c) ==
    LET after == c.e.point + Len(c.string)
    IN Cut(c.e.line, after, Ahead(c.e, Least(after, End(c.e)), LAMBDA x : ~Alphabetic(x)))
LineBehind(c) == Cut(c.e.line, c.e.point + Len(c.string), End(c.e))
Added(c, s) == [c EXCEPT !.string = @ \o s]
Quoted(c) ==
    IF NextKey(c.e) = EOF THEN [c EXCEPT !.how = "left"]
    ELSE Added([c EXCEPT !.e = ReadKey(@)], <<NextKey(c.e)>>)
_rl_isearch_dispatch(c) ==
    LET k == NextKey(c.e)
        read == [c EXCEPT !.e = ReadKey(@)]
        pasted == _rl_bracketed_text(read.e)
        changed == CASE Opcode(c, k) = "fail" -> [c EXCEPT !.how = "left"]
                     [] Opcode(c, k) = "again" -> SearchedAgain(read)
                     [] Opcode(c, k) = "turn" -> [read EXCEPT !.dir = -@]
                     [] Opcode(c, k) = "rubout" -> [read EXCEPT !.string = Cut(@, 0, Len(@) - 1)]
                     [] Opcode(c, k) = "abort" -> Aborted(read)
                     [] Opcode(c, k) = "word" -> Added(read, WordBehind(c))
                     [] Opcode(c, k) = "rest" -> Added(read, LineBehind(c))
                     [] Opcode(c, k) = "paste" -> Added([read EXCEPT !.e = pasted.e], pasted.text)
                     [] Opcode(c, k) = "quote" -> Quoted(read)
                     [] Opcode(c, k) = "add" -> Added(read, <<k>>)
                     [] OTHER -> Ended(c)
    IN IF changed.how = "reading" THEN Find(changed) ELSE changed
RECURSIVE Isearching(_)
Isearching(c) == IF c.how = "reading" THEN Isearching(_rl_isearch_dispatch(c)) ELSE c
_rl_isearch_fini(c) ==
    LET back == [rl_replace_line(c.e, c.lines[c.save + 1], FALSE) EXCEPT !.isearch = c.string]
        there == IF c.last < c.save THEN rl_get_previous(back, c.save - c.last)
                 ELSE rl_get_next(back, c.last - c.save)
    IN At(there, Clipped(there, c.index))
rl_search_history(e, dir) ==
    LET c == Isearching(_rl_isearch_init(e, dir))
    IN IF c.how = "ended" THEN _rl_isearch_fini(c) ELSE c.e
rl_reverse_search_history(e, n) == rl_search_history(e, IF n < 0 THEN 1 ELSE -1)
rl_forward_search_history(e, n) == rl_search_history(e, IF n < 0 THEN -1 ELSE 1)
====
