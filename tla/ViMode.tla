---- MODULE ViMode ----
(***************************************************************************)
(* The vi commands of src/lib/readline/vi_mode.c, and those of kill.c that *)
(* know of vi mode.  e.key is the key that runs a command: one function    *)
(* serves several keys.                                                    *)
(*   vlast            _rl_vi_last_command, _repeat, _arg_sign: what "."    *)
(*                    does again;  redoing: "." is running                 *)
(*   motion           _rl_vi_last_motion                                   *)
(*   target way       the last character searched for and _rl_cs_orig_dir  *)
(*   replacement      _rl_vi_last_replacement                              *)
(*   before doing     _rl_vi_last_key_before_insert, _rl_vi_doing_insert   *)
(*   count typed      vi_replace_count, vi_insert_buffer                   *)
(*   once marks       RL_STATE_VICMDONCE, vi_mark_chars                    *)
(***************************************************************************)
EXTENDS Completion

Opposite == [FTO |-> "BTO", BTO |-> "FTO", FFIND |-> "BFIND", BFIND |-> "FFIND"]
vi_motion == {" ", "h", "l", "^", "$", "0", "f", "t", "F", "T", ";", ",", "%",
              "w", "b", "e", "W", "B", "E", "|", "BACKQUOTE"}
vi_textmod == {"_", "*", "\\", "A", "a", "I", "i", "C", "c", "D", "d", "P", "p", "Y", "y",
               "R", "r", "S", "s", "X", "x", "~"}
Letters == {"a", "b"}                              \* the marks in use, of a to z
LastCommand(key, repeat, sign) == [command |-> key, repeat |-> repeat, sign |-> sign]
_rl_vi_reset_last(e) == [e EXCEPT !.vlast = LastCommand("i", 1, 1), !.motion = ""]

----
(* Moving by words.  CharAt(e, p) is the character under the cursor; the   *)
(* end of the line is no white space.                                      *)

CharAt(e, p) == IF p < End(e) THEN e.line[p + 1] ELSE "NUL"
Ident(c) == Alphabetic(c) \/ c = "_"
SameKind(c, d) == Ident(c) = Ident(d) /\ White(c) = White(d)
\* The last position up to p, the start of the line at the least, on a Test.
Onto(e, p, Test(_)) ==
    CHOOSE q \in 0..p : /\ q = 0 \/ Test(CharAt(e, q))
                        /\ \A i \in (q + 1)..p : ~Test(CharAt(e, i))
PastBlanks(e, p) == Ahead(e, p, LAMBDA c : ~White(c))
\* A word is a run of characters of one kind; a big one, of no white space.
Boundary(big, c, d) == IF big THEN White(d) ELSE ~SameKind(c, d)
RunEnd(e, p, big) == Ahead(e, p, LAMBDA c : Boundary(big, CharAt(e, p), c))
RunStart(e, p, big) ==
    LET q == Onto(e, p - 1, LAMBDA c : Boundary(big, CharAt(e, p), c))
    IN IF q > 0 THEN q + 1 ELSE 0

NextWord(e, big) ==
    LET stop == IF White(CharAt(e, e.point)) THEN e.point ELSE RunEnd(e, e.point, big)
    IN IF e.point < End(e) - 1 THEN At(e, PastBlanks(e, stop)) ELSE e
PrevWord(e, big) ==
    LET p == e.point
        q == IF ~White(CharAt(e, p)) /\ White(CharAt(e, p - 1)) THEN p - 1 ELSE p
        r == IF ~big /\ q > 0 /\ Ident(CharAt(e, q)) # Ident(CharAt(e, q - 1)) THEN q - 1 ELSE q
        s == Onto(e, r, LAMBDA c : ~White(c))
    IN IF p = 0 THEN e ELSE At(e, IF s = 0 THEN 0 ELSE RunStart(e, s, big))
EndWord(e, big) ==
    LET p == e.point
        q == PastBlanks(e, IF White(CharAt(e, p)) THEN p ELSE p + 1)
    IN IF p >= End(e) - 1 THEN e
       ELSE At(e, IF q < End(e) THEN RunEnd(e, q, big) - 1 ELSE q)

rl_vi_next_word(e, n) ==
    LET big == e.key = "W"
        forward(x) == NextWord(x, big)  back(x) == PrevWord(x, e.key = "B")
    IN IF n < 0 THEN Times(-n, back, e) ELSE Times(n, forward, e)
rl_vi_prev_word(e, n) ==
    LET back(x) == PrevWord(x, e.key = "B")  forward(x) == NextWord(x, e.key = "W")
    IN IF n < 0 THEN Times(-n, forward, e) ELSE Times(n, back, e)
rl_vi_end_word(e, n) ==
    LET on(x) == EndWord(x, e.key = "E")
    IN IF n < 0 THEN e ELSE Times(n, on, e)

rl_vi_first_print(e, n) == At(e, PastBlanks(e, 0))
rl_vi_column(e, n) ==
    At(e, IF n > End(e) THEN End(e) ELSE Most(0, Least(n - 1, End(e) - 1)))

brackets == <<<<"(", ")">>, <<"[", "]">>, <<"{", "}">>>>
Bracket(c) == {<<i, j>> \in (1..3) \X (1..2) : brackets[i][j] = c}
rl_vi_match(e, n) ==
    LET first == Ahead(e, e.point, LAMBDA c : Bracket(c) # {})
        b == CHOOSE t \in Bracket(CharAt(e, first)) : TRUE
        other == brackets[b[1]][3 - b[2]]
        between(q) == IF b[2] = 1 THEN first..q ELSE q..first
        number(q, c) == Cardinality({p \in between(q) : CharAt(e, p) = c})
        even == {q \in 0..(End(e) - 1) :
                   /\ IF b[2] = 1 THEN q > first ELSE q < first
                   /\ number(q, CharAt(e, first)) = number(q, other)}
    IN IF first >= End(e) THEN e
       ELSE At(e, IF even = {} THEN first ELSE IF b[2] = 1 THEN SetMin(even) ELSE SetMax(even))

rl_vi_set_mark(e, n) ==
    LET k == NextKey(e)
    IN IF k \in Letters THEN [ReadKey(e) EXCEPT !.marks[k] = e.point] ELSE ReadKey(e)
rl_vi_goto_mark(e, n) ==
    LET k == NextKey(e)
    IN CASE k = "BACKQUOTE" -> _rl_fix_point(At(ReadKey(e), e.mark))
         [] k \in Letters -> IF e.marks[k] = -1 THEN ReadKey(e)
                             ELSE _rl_fix_point(At(ReadKey(e), e.marks[k]))
         [] OTHER -> ReadKey(e)

\* f, F, t and T read a character, except when they are done again.
CharSearch(e, n) ==
    LET keeps == e.key \in {";", ","}
        dir == CASE e.key = "t" -> "FTO" [] e.key = "T" -> "BTO"
                 [] e.key = "f" -> "FFIND" [] e.key = "F" -> "BFIND"
                 [] e.key = ";" -> e.way
                 [] OTHER -> IF e.way = "" THEN "" ELSE Opposite[e.way]
        turned == IF keeps THEN e ELSE [e EXCEPT !.way = dir]
        got == _rl_bracketed_read_key(turned)
        gone == got.c \in {EOF, "NUL"}
        read == IF keeps \/ e.redoing THEN turned
                ELSE [got.e EXCEPT !.target = IF gone THEN @ ELSE <<got.c>>]
        hits == {p \in 0..(End(e) - 1) : /\ IF dir \in {"FTO", "FFIND"} THEN p > e.point ELSE p < e.point
                                         /\ CharAt(e, p) = read.target[1]}
        none == (keeps /\ (dir = "" \/ e.target = <<>>)) \/ (~keeps /\ ~e.redoing /\ gone)
    IN IF none THEN [e |-> read, failed |-> TRUE]
       ELSE [e |-> Searched(read, n, e.point, dir, read.target[1]),
             failed |-> Cardinality(hits) < n]
rl_vi_char_search(e, n) == CharSearch(e, n).e

----
(* Inserting.  A command that inserts opens an undo group, and leaving the *)
(* insertion closes what is open and keeps the text for ".".               *)

rl_vi_start_inserting(e, key, repeat) ==
    [rl_begin_undo_group([e EXCEPT !.vlast = LastCommand(key, repeat, e.sign)])
       EXCEPT !.map = "insertion", !.before = key]
rl_vi_insert_mode(e, n) == rl_vi_start_inserting(e, e.key, 1)
rl_vi_insert_beg(e, n) == rl_vi_insert_mode(At(e, 0), 1)
rl_vi_append_mode(e, n) == rl_vi_insert_mode(At(e, Least(e.point + 1, End(e))), 1)
rl_vi_append_eol(e, n) == rl_vi_insert_mode(At(e, End(e)), 1)

_rl_vi_save_insert(e, up) ==
    [e EXCEPT !.typed = IF up \in {0, -1} THEN <<>>
                        ELSE IF e.node[up].what # "insert" THEN <<>>
                        ELSE Cut(e.line, e.node[up].start, Least(e.node[up].end, End(e)))]
_rl_vi_save_replace(e) ==
    LET start == e.point - e.count + 1
    IN [e EXCEPT !.typed =
          IF e.undo = 0 \/ e.count <= 0 THEN <<>>
          ELSE IF e.node[e.undo].what # "end" THEN <<>>
          ELSE Cut(e.line, Most(start, 0),
                   Least(End(e), IF start < 0 THEN e.point ELSE start + e.count))]
_rl_vi_done_inserting(e) ==
    LET ended == rl_end_undo_group([e EXCEPT !.doing = FALSE])
        kept == IF e.before = "R" THEN _rl_vi_save_replace(ended)
                ELSE _rl_vi_save_insert(ended, e.undo)
        done == CASE e.doing -> kept
                  [] ~e.doing /\ e.undo # 0 /\ e.before \in {"i", "a", "I", "A"} ->
                       _rl_vi_save_insert(e, e.undo)
                  [] ~e.doing /\ e.before = "C" -> rl_end_undo_group(e)
                  [] OTHER -> e
    IN Times(Most(done.level, 0), rl_end_undo_group, done)
rl_vi_movement_mode(e, n) ==
    LET left == _rl_vi_done_inserting([At(e, Most(e.point - 1, 0)) EXCEPT !.map = "movement"])
    IN [IF e.once THEN left ELSE rl_free_undo_list(left) EXCEPT !.once = TRUE]

rl_newline(e, n) ==
    LET left == _rl_vi_done_inserting(e)
    IN [IF ~e.vi THEN e ELSE IF left.vlast.command \in vi_textmod THEN left
        ELSE _rl_vi_reset_last(left) EXCEPT !.done = TRUE]
rl_vi_eof_maybe(e, n) == rl_newline(e, 1)

\* R types over the text.
rl_vi_replace(e, n) ==
    [rl_vi_insert_mode([e EXCEPT !.count = 0], 1) EXCEPT !.before = "R", !.map = "replace"]
Overstruck(e, n, c) ==
    LET begun == IF e.doing THEN e ELSE rl_begin_undo_group([e EXCEPT !.doing = TRUE])
    IN IF n > 0 THEN [_rl_overwrite_char(begun, n, c) EXCEPT !.count = @ + n] ELSE begun
rl_vi_overstrike(e, n) == Overstruck(e, n, e.key)
rl_vi_overstrike_delete(e, n) ==
    LET one(x) == LET undone == rl_do_undo(x)
                      fewer == [undone EXCEPT !.count = IF x.undo = 0 THEN @ ELSE @ - 1]
                  IN IF x.count = 0 THEN x
                     ELSE IF fewer.point = x.point THEN rl_backward_char(fewer, 1) ELSE fewer
        done == Times(Most(n, 0), one, e)
    IN IF done.count = 0 /\ done.doing
       THEN [rl_do_undo(rl_end_undo_group(done)) EXCEPT !.doing = FALSE] ELSE done

Recounted(e, x) == [x EXCEPT !.count = @ + End(x) - End(e)]
rl_vi_overstrike_yank(e, n) == Recounted(e, rl_yank(e, n))
rl_vi_overstrike_kill_line(e, n) == Recounted(e, rl_unix_line_discard(e, n))
RECURSIVE rl_vi_overstrike_bracketed_paste(_, _)
rl_vi_overstrike_bracketed_paste(e, n) ==
    LET k == NextKey(e)
    IN IF k \in {EOF, "PASTE-END"} THEN ReadKey(e)
       ELSE rl_vi_overstrike_bracketed_paste(Overstruck(ReadKey(e), 1, k), n)

----
(* Deleting, changing and putting back.                                    *)

rl_vi_delete(e, n) ==
    LET cut == rl_kill_text(e, e.point, Least(e.point + n, End(e)))
    IN IF End(e) = 0 THEN e
       ELSE IF cut.point > 0 /\ cut.point = End(cut) THEN At(cut, cut.point - 1) ELSE cut
rl_vi_rubout(e, n) ==
    LET to == Most(e.point - n, 0)
    IN IF e.point = 0 THEN e ELSE rl_kill_text(At(e, to), to, e.point)
rl_vi_put(e, n) ==
    LET at == IF e.key # "P" THEN At(e, Least(e.point + 1, End(e))) ELSE e
        yank(x) == rl_yank(x, 1)
        put == Times(n, yank, at)
    IN IF e.ring = <<>> THEN _rl_abort_internal(at) ELSE rl_backward_char(put, 1)
Breaks(c) == ~Alphabetic(c) /\ c # "NUL"
rl_vi_unix_word_rubout(e, n) ==
    LET one(x) ==
            LET ended == x.point = End(x) /\ x.point > 0 /\ White(CharAt(x, x.point - 1))
                p == IF ended THEN Onto(x, x.point - 1, LAMBDA c : ~White(c)) ELSE x.point
                q == IF p > 0 /\ ~Breaks(CharAt(x, p)) /\ Breaks(CharAt(x, p - 1)) THEN p - 1 ELSE p
            IN At(x, IF Breaks(CharAt(x, q)) THEN Back(x, q, LAMBDA c : ~Breaks(c))
                     ELSE Back(x, q, Breaks))
        to == Times(Most(n, 1), one, e)
    IN IF e.point = 0 THEN e ELSE rl_kill_text(to, e.point, to.point)

rl_vi_overstrike_kill_word(e, n) == Recounted(e, rl_vi_unix_word_rubout(e, n))

\* Delete the character under the cursor and insert c before the next one.
PutOver(e, c) ==
    LET cut == rl_vi_delete(e, 1)
        there == IF cut.point < e.point THEN At(cut, Least(cut.point + 1, End(cut))) ELSE cut
    IN rl_insert_text(there, <<c>>)
_rl_vi_change_mbchar_case(e, n) ==
    LET one(x) ==
            LET c == CharAt(x, x.point)
                other == IF c \in DOMAIN Capital THEN Capital[c] ELSE Small[c]
                put == rl_end_undo_group(PutOver(rl_begin_undo_group(x), other))
            IN CASE x.point >= End(x) -> x
                 [] x.point < End(x) /\ c \notin DOMAIN Capital \cup DOMAIN Small ->
                      rl_forward_char(x, 1)
                 [] OTHER -> IF put.point > 0 /\ put.point = End(put) THEN At(put, put.point - 1)
                             ELSE put
    IN Times(n, one, e)
rl_vi_change_case(e, n) == IF e.point >= End(e) THEN e ELSE _rl_vi_change_mbchar_case(e, n)
rl_vi_change_char(e, n) ==
    LET got == _rl_bracketed_read_key(e)
        c == IF e.redoing THEN e.replacement ELSE got.c
        read == IF e.redoing THEN e ELSE [got.e EXCEPT !.replacement = c]
        one(x) == IF x.point < End(x) THEN PutOver(x, c) ELSE x
    IN IF c \in {EOF, "ESC", "C-c"} THEN read
       ELSE rl_end_undo_group(rl_backward_char(Times(n, one, rl_begin_undo_group(read)), 1))

(* d, c and y act on the text from m.start to where a motion goes; the     *)
(* line has a blank at its end while the motion runs.                      *)
Motion(e, c) ==
    LET n == e.numeric * e.sign
        x == [e EXCEPT !.key = c]
    IN CASE c \in {" ", "l"} -> rl_forward_char(x, n)
         [] c = "h" -> rl_backward_char(x, n)
         [] c = "0" -> rl_beg_of_line(x, n)
         [] c = "^" -> rl_vi_first_print(x, n)
         [] c = "$" -> rl_end_of_line(x, n)
         [] c \in {"f", "t", "F", "T", ";", ","} -> rl_vi_char_search(x, n)
         [] c = "%" -> rl_vi_match(x, n)
         [] c \in {"w", "W"} -> rl_vi_next_word(x, n)
         [] c \in {"b", "B"} -> rl_vi_prev_word(x, n)
         [] c \in {"e", "E"} -> rl_vi_end_word(x, n)
         [] c = "|" -> rl_vi_column(x, n)
         [] c = "BACKQUOTE" -> rl_vi_goto_mark(x, n)

\* The motions that end beside the last character, not on it.
Exclusive(key) ==
    {" ", "l", "|", "h", "^", "0", "b", "B", "F", "T", "BACKQUOTE"}
      \cup (IF key = "c" THEN {"w", "W"} ELSE IF key = "y" THEN {"%"} ELSE {})
Widened(e, key, c, start) ==
    IF c \notin Exclusive(key) /\ e.point >= start /\ e.mark < End(e)
    THEN [e EXCEPT !.mark = @ + 1] ELSE e

vi_delete_dispatch(e, key, c, start) ==
    LET w == Widened(e, "d", c, start) IN rl_kill_text(w, w.point, w.mark)
vi_change_dispatch(e, key, c, start) ==
    LET wide == Widened(e, "c", c, start)
        w == IF c \in {"w", "W"} THEN At(wide, Most(wide.point, start)) ELSE wide
        killed == rl_kill_text(rl_begin_undo_group(w), w.point, w.mark)
        again == rl_end_undo_group(rl_insert_text(
                   rl_delete_text(rl_begin_undo_group(w), w.point, w.mark), e.typed))
    IN CASE e.redoing /\ e.typed # <<>> -> again
         [] e.redoing /\ e.typed = <<>> -> rl_delete_text(w, w.point, w.mark)
         [] OTHER -> rl_vi_start_inserting([killed EXCEPT !.doing = key # "C" \/ @],
                                           key, e.numeric)
vi_yank_dispatch(e, key, c, start) ==
    LET w == Widened(e, "y", c, start)
        killed == rl_end_undo_group(rl_kill_text(rl_begin_undo_group(w), w.point, w.mark))
    IN _rl_fix_point(At(rl_do_undo(killed), start))
vidomove_dispatch(e, key, c, start) ==
    CASE key \in {"d", "D"} -> vi_delete_dispatch(e, key, c, start)
      [] key \in {"c", "C"} -> vi_change_dispatch(e, key, c, start)
      [] key \in {"y", "Y"} -> vi_yank_dispatch(e, key, c, start)

rl_domove_motion_callback(e, key, c) ==
    LET blank == [e EXCEPT !.line = Append(@, " "), !.motion = c]
        there == Motion(blank, c)
        failed == /\ there.point = e.point
                  /\ c \in {"f", "t", "F", "T", ";", ","}
                  /\ CharSearch([blank EXCEPT !.key = c], e.numeric * e.sign).failed
        x == _rl_fix_point([there EXCEPT !.line = e.line, !.key = e.key])
        word == c \in {"w", "W"}
        stop == IF word /\ x.point < End(x) /\ x.point > x.mark /\ ~White(CharAt(x, x.point))
                THEN x.point - 1 ELSE x.point
        on == SetMax({q \in x.mark..Most(stop, x.mark) :
                        q = x.mark \/ ~White(CharAt(x, q))})
        over == IF on = x.mark \/ (on < End(x) - 1 /\ ~White(CharAt(x, on)))
                THEN Least(on + 1, End(x)) ELSE on
        to == IF key = "c" /\ word /\ stop >= x.mark THEN over ELSE stop
    IN IF x.mark = x.point
       THEN IF failed THEN x ELSE vidomove_dispatch(x, key, c, e.point)
       ELSE vidomove_dispatch([x EXCEPT !.point = Least(to, x.mark), !.mark = Most(to, x.mark)],
                              key, c, e.point)
WholeLine(e, key, c) ==
    vidomove_dispatch([At(e, 0) EXCEPT !.mark = End(e), !.motion = c], key, c, e.point)

\* A count before the motion multiplies the command's.
DigitValue(c) == CHOOSE i \in 0..9 : <<"0", "1", "2", "3", "4", "5", "6", "7", "8", "9">>[i + 1] = c
RECURSIVE Counted(_, _)
Counted(e, value) ==
    IF NextKey(e) \in Digits THEN Counted(ReadKey(e), 10 * value + DigitValue(NextKey(e)))
    ELSE [e EXCEPT !.numeric = @ * value, !.explicit = TRUE]
rl_domove_read_callback(e, key) ==
    LET c == _rl_bracketed_read_key(e).c
        read == _rl_bracketed_read_key(e).e
        counted == Counted(read, DigitValue(c))
        then == NextKey(counted)
    IN CASE c \in vi_motion -> rl_domove_motion_callback(read, key, c)
         [] c = key -> WholeLine(read, key, c)
         [] c \in Digits \ {"0"} ->
              IF then \in vi_motion THEN rl_domove_motion_callback(ReadKey(counted), key, then)
              ELSE ReadKey(counted)
         [] OTHER -> read

Operate(e, key) ==
    LET from == [e EXCEPT !.mark = e.point]
    IN CASE key \in {"D", "C", "Y"} -> rl_domove_motion_callback(from, key, "$")
         [] e.redoing /\ key \notin {"D", "C", "Y"} ->
              IF e.motion # key THEN rl_domove_motion_callback(from, key, e.motion)
              ELSE WholeLine(from, key, key)
         [] OTHER -> rl_domove_read_callback(from, key)
rl_vi_delete_to(e, n) == Operate(e, e.key)
rl_vi_change_to(e, n) == Operate(e, e.key)
rl_vi_yank_to(e, n) == Operate(e, e.key)
rl_vi_subst(e, n) ==
    LET stuffed == [e EXCEPT !.input = <<IF e.key = "S" THEN "c" ELSE "l">> \o @]
    IN Operate(IF e.redoing THEN e ELSE stuffed, "c")

----
(* Words of the history, and the history through vi keys.                  *)

rl_yank_nth_arg_internal(e, n, skip) ==
    LET arg == PreviousArgument(e, n, skip)
        begun == [rl_begin_undo_group(e) EXCEPT !.mark = e.point]
        put == IF CommandMode(e) THEN rl_insert_text(rl_vi_append_mode(begun, 1), <<" ">>) ELSE begun
    IN IF arg = <<>> THEN e ELSE rl_end_undo_group(rl_insert_text(put, arg))
rl_yank_nth_arg(e, n) == rl_yank_nth_arg_internal(e, n, 0)
rl_yank_last_arg(e, n) ==
    LET again == e.last = "rl_yank_last_arg"
        dir == IF n < 0 THEN -e.yla.dir ELSE e.yla.dir
        yla == IF again THEN [e.yla EXCEPT !.dir = dir, !.skip = Most(@ + dir, 0)]
               ELSE [skip |-> 0, explicit |-> e.explicit, count |-> n, dir |-> 1, undo |-> e.yla.undo]
        back == IF again /\ e.yla.undo THEN rl_do_undo(e) ELSE e
        which == IF yla.explicit THEN yla.count ELSE DollarSign
    IN [rl_yank_nth_arg_internal(back, which, yla.skip)
          EXCEPT !.yla = [yla EXCEPT !.undo = PreviousArgument(back, which, yla.skip) # <<>>]]
rl_vi_yank_arg(e, n) == rl_yank_nth_arg(e, IF e.explicit THEN n - 1 ELSE DollarSign)
rl_vi_fetch_history(e, n) == rl_fetch_history(e, n)
rl_vi_search(e, n) == noninc_search(e, IF e.key = "?" THEN 1 ELSE -1, TRUE)
rl_vi_search_again(e, n) == rl_noninc_search_again(e, IF e.key = "n" THEN -1 ELSE 1)
rl_vi_undo(e, n) == rl_undo_command(e, n)

\* Completing takes the word to its end first; "*" and "\\" go on inserting.
rl_vi_complete(e, n) ==
    LET inside == e.point < End(e) /\ ~White(CharAt(e, e.point))
        ended == IF White(CharAt(e, e.point + 1)) THEN e ELSE EndWord(e, TRUE)
        at == IF inside THEN At(ended, Least(ended.point + 1, End(e))) ELSE e
        done == CASE e.key = "*" -> rl_complete_internal(at, "*")
                  [] e.key = "=" -> rl_complete_internal(at, "?")
                  [] e.key = "\\" -> rl_complete_internal(at, "TAB")
                  [] OTHER -> rl_complete(at, 0)
    IN IF e.key \in {"*", "\\"} /\ ~done.aborted THEN rl_vi_start_inserting(done, e.key, 1) ELSE done
rl_vi_tilde_expand(e, n) == rl_vi_start_inserting(rl_tilde_expand(e, 0), e.key, 1)

----
(* "." does the last command again: an insertion puts its text.            *)

Stuffed(e, n) ==
    LET put(x) == rl_insert_text(x, e.typed)
        stuffed == rl_end_undo_group(Times(n, put, rl_begin_undo_group(e)))
    IN At(stuffed, Most(stuffed.point - 1, 0))
ReplacedAgain(e, n) ==
    LET put(x) == _rl_replace_text(x, e.typed, x.point, x.point + Len(e.typed) - 1)
        done == rl_end_undo_group(Times(n, put, rl_begin_undo_group(e)))
    IN At(done, Most(done.point - 1, 0))
Again(e, n) ==
    LET c == e.key
    IN CASE c = "_" -> rl_vi_yank_arg(e, n)
         [] c = "A" -> rl_vi_append_eol(e, n)     [] c = "a" -> rl_vi_append_mode(e, n)
         [] c = "I" -> rl_vi_insert_beg(e, n)     [] c = "i" -> rl_vi_insert_mode(e, n)
         [] c \in {"C", "c"} -> rl_vi_change_to(e, n)
         [] c \in {"D", "d"} -> rl_vi_delete_to(e, n)
         [] c \in {"P", "p"} -> rl_vi_put(e, n)
         [] c \in {"Y", "y"} -> rl_vi_yank_to(e, n)
         [] c = "R" -> rl_vi_replace(e, n)        [] c = "r" -> rl_vi_change_char(e, n)
         [] c \in {"S", "s"} -> rl_vi_subst(e, n)
         [] c = "X" -> rl_vi_rubout(e, n)         [] c = "x" -> rl_vi_delete(e, n)
         [] c \in {"*", "\\"} -> rl_vi_complete(e, n)
         [] c = "&" -> rl_vi_tilde_expand(e, n)
         [] c = "~" -> rl_vi_change_case(e, n)    [] c = "C-j" -> rl_newline(e, n)
\* After a text modification in the movement map, "." knows it.
Remembered(e, key) ==
    IF e.vi /\ e.map = "movement" /\ key \in vi_textmod /\ ~e.aborted
    THEN [e EXCEPT !.vlast = LastCommand(key, e.numeric, e.sign)] ELSE e
rl_vi_redo(e, n) ==
    LET v == e.vlast
        x == IF e.explicit THEN [e EXCEPT !.redoing = TRUE]
             ELSE [e EXCEPT !.redoing = TRUE, !.numeric = v.repeat, !.sign = v.sign]
        c == v.command
        done == CASE c = "i" /\ e.typed # <<>> -> Stuffed(x, n)
                  [] c = "R" /\ e.typed # <<>> -> ReplacedAgain(x, n)
                  [] c = "I" /\ e.typed # <<>> -> Stuffed(At(x, 0), n)
                  [] c = "a" /\ e.typed # <<>> -> Stuffed(At(x, Least(x.point + 1, End(x))), n)
                  [] c = "A" /\ e.typed # <<>> -> Stuffed(At(x, End(x)), n)
                  [] OTHER -> Remembered(Again([x EXCEPT !.key = c], x.numeric * x.sign), c)
    IN [done EXCEPT !.redoing = FALSE]
====
