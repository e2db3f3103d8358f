---- MODULE TextCommands ----
(***************************************************************************)
(* The commands of src/lib/readline/text.c and kill.c.  A command gets the *)
(* editor e and its argument n, numeric and signed; e.explicit says that   *)
(* the user gave it.                                                       *)
(*   ring slot          the kill ring and rl_kill_index + 1                *)
(*   kill killed        _rl_last_command_was_kill, and whether the running *)
(*                      command changed it                                 *)
(*   input              the keys typed and not read; e.key is the last one *)
(*   vi map             rl_editing_mode = vi_mode, and the keymap's name   *)
(***************************************************************************)
EXTENDS LineEditing, Keymaps

CONSTANTS MaxKills,          \* DEFAULT_MAX_KILLS
          ScreenWidth,
          TEXT_COUNT_MAX     \* copies of a character inserted at once
ASSUME KillAssumption ==
    MaxKills \in Nat \ {0} /\ ScreenWidth \in Nat \ {0} /\ TEXT_COUNT_MAX \in Nat \ {0}

MarkHere(e) == IF e.vi THEN e ELSE [e EXCEPT !.mark = e.point]
CommandMode(e) == e.vi /\ e.map = "movement"
_rl_reset_argument(e) == [e EXCEPT !.numeric = 1, !.sign = 1, !.explicit = FALSE]
_rl_abort_internal(e) ==
    [_rl_reset_argument(e) EXCEPT !.aborted = TRUE, !.last = ""]

(* A key read by a command; at the end of the input it is EOF. *)
EOF == "EOF"
NextKey(e) == IF e.input = <<>> THEN EOF ELSE Head(e.input)
ReadKey(e) == IF e.input = <<>> THEN e ELSE [e EXCEPT !.input = Tail(@)]

(* A paste: everything up to its end, or to the end of the input. *)
_rl_bracketed_text(e) ==
    LET end == SelectInSeq(e.input, LAMBDA k : k = "PASTE-END")
        text == IF end = 0 THEN e.input ELSE SubSeq(e.input, 1, end - 1)
    IN [text |-> [i \in DOMAIN text |-> IF text[i] = "RET" THEN "LF" ELSE text[i]],
        e |-> [e EXCEPT !.input = SubSeq(@, IF end = 0 THEN Len(@) + 1 ELSE end + 1, Len(@))]]
(* A command that reads one character takes the first of a paste; the      *)
(* others are read as keys.                                                *)
_rl_unget_char(c) == IF c = "LF" THEN "C-j" ELSE c
_rl_bracketed_read_key(e) ==
    LET pasted == _rl_bracketed_text(ReadKey(e))
        rest == [i \in 1..(Len(pasted.text) - 1) |-> _rl_unget_char(pasted.text[i + 1])]
    IN CASE NextKey(e) # "PASTE" -> [c |-> NextKey(e), e |-> ReadKey(e)]
         [] NextKey(e) = "PASTE" /\ pasted.text = <<>> -> [c |-> "NUL", e |-> pasted.e]
         [] OTHER -> [c |-> pasted.text[1], e |-> [pasted.e EXCEPT !.input = rest \o @]]

----
(* Moving. *)

_rl_forward_char_internal(e, n) ==
    Least(e.point + n, IF CommandMode(e) THEN Most(End(e) - 1, 0) ELSE End(e))
rl_forward_char(e, n) ==
    CASE n < 0 -> At(e, Most(e.point + n, 0))
      [] n > 0 /\ ~(e.point = End(e) /\ ~e.vi) -> At(e, _rl_forward_char_internal(e, n))
      [] OTHER -> e
rl_backward_char(e, n) ==
    IF n < 0 THEN rl_forward_char(e, -n) ELSE At(e, Most(e.point - n, 0))
rl_beg_of_line(e, n) == At(e, 0)
rl_end_of_line(e, n) == At(e, End(e))

\* To the next end of a word, and to the last beginning of one.
WordForward(e) ==
    At(e, Ahead(e, Ahead(e, e.point, Alphabetic), LAMBDA c : ~Alphabetic(c)))
WordBackward(e) ==
    At(e, Back(e, Back(e, e.point, Alphabetic), LAMBDA c : ~Alphabetic(c)))
rl_forward_word(e, n) ==
    IF n < 0 THEN Times(-n, WordBackward, e) ELSE Times(n, WordForward, e)
rl_backward_word(e, n) == rl_forward_word(e, -n)

rl_previous_screen_line(e, n) == rl_backward_char(e, ScreenWidth)
rl_next_screen_line(e, n) == rl_forward_char(e, ScreenWidth)

rl_set_mark(e, n) ==
    LET at == IF e.explicit THEN n ELSE e.point
    IN IF at \in 0..End(e) THEN [e EXCEPT !.mark = at] ELSE e
rl_exchange_point_and_mark(e, n) ==
    IF e.mark \notin 0..End(e) THEN [e EXCEPT !.mark = 0]
    ELSE [e EXCEPT !.point = e.mark, !.mark = e.point]

\* FTO and BTO stop beside the character, FFIND and BFIND on it; each match
\* on the way moves the cursor.
RECURSIVE Searched(_, _, _, _, _)
Searched(e, n, pos, dir, c) ==
    LET there == IF dir \in {"FFIND", "FTO"} THEN {p \in (pos + 1)..(End(e) - 1) : e.line[p + 1] = c}
                 ELSE {p \in 0..(pos - 1) : e.line[p + 1] = c}
        p == IF dir \in {"FFIND", "FTO"} THEN CHOOSE x \in there : \A y \in there : x <= y
             ELSE CHOOSE x \in there : \A y \in there : x >= y
        stop == CASE dir = "FTO" -> p - 1 [] dir = "BTO" -> p + 1 [] OTHER -> p
    IN IF n = 0 \/ there = {} THEN e ELSE Searched(At(e, stop), n - 1, p, dir, c)
_rl_char_search(e, n, forward, backward) ==
    LET read == _rl_bracketed_read_key(e)
    IN IF read.c \in {EOF, "NUL"} THEN read.e
       ELSE Searched(read.e, IF n < 0 THEN -n ELSE n, e.point,
                     IF n < 0 THEN backward ELSE forward, read.c)
rl_char_search(e, n) == _rl_char_search(e, n, "FFIND", "BFIND")
rl_backward_char_search(e, n) == _rl_char_search(e, n, "BFIND", "FFIND")

----
(* The kill ring. *)

_rl_copy_to_kill_ring(e, text, append) ==
    LET fresh == ~e.kill \/ e.ring = <<>>
        room == IF Len(e.ring) = MaxKills THEN Tail(e.ring) ELSE e.ring
        slots == IF fresh THEN Append(room, text)
                 ELSE IF e.vi THEN [e.ring EXCEPT ![Len(e.ring)] = text]
                 ELSE [e.ring EXCEPT ![Len(e.ring)] = IF append THEN @ \o text ELSE text \o @]
    IN [e EXCEPT !.ring = slots, !.slot = Len(slots)]

Killing(e) == [e EXCEPT !.kill = TRUE, !.killed = TRUE]
\* A bug to check the properties against: later kills always come last.
rl_kill_text_appending(e, from, to) ==
    IF from = to THEN Killing(e)
    ELSE Killing(_rl_copy_to_kill_ring(
           rl_delete_text(e, from, to),
           Cut(e.line, Lower(e, from, to), Upper(e, from, to)), TRUE))
rl_kill_text(e, from, to) ==
    IF from = to THEN Killing(e)
    ELSE Killing(_rl_copy_to_kill_ring(
           rl_delete_text(e, from, to),
           Cut(e.line, Lower(e, from, to), Upper(e, from, to)), from < to))

\* Kill from the old cursor to the new one, and stay at the lower of them.
KillTo(e, moved) ==
    LET killed == IF moved.point = e.point THEN e ELSE rl_kill_text(e, e.point, moved.point)
    IN MarkHere(At(killed, Least(e.point, moved.point)))

rl_kill_word(e, n) == KillTo(e, rl_forward_word(e, n))
rl_backward_kill_word(e, n) == rl_kill_word(e, -n)
rl_backward_kill_line(e, n) ==
    IF n < 0 THEN KillTo(e, rl_end_of_line(e, 1))
    ELSE IF e.point = 0 THEN e ELSE KillTo(e, rl_beg_of_line(e, 1))
rl_kill_line(e, n) ==
    IF n < 0 THEN rl_backward_kill_line(e, 1) ELSE KillTo(e, rl_end_of_line(e, 1))
rl_kill_full_line(e, n) ==
    LET begun == At(rl_begin_undo_group(e), 0)
    IN rl_end_undo_group([rl_kill_text(begun, 0, End(e)) EXCEPT !.mark = 0])
rl_unix_line_discard(e, n) ==
    IF e.point = 0 THEN e ELSE MarkHere(At(rl_kill_text(e, e.point, 0), 0))

Blanks(e, p) == Back(e, p, LAMBDA c : ~White(c))
UnixWord(e) == At(e, Back(e, Blanks(e, e.point), White))
rl_unix_word_rubout(e, n) ==
    LET to == Times(Most(n, 1), UnixWord, e).point
    IN IF e.point = 0 THEN e ELSE MarkHere(At(rl_kill_text(e, e.point, to), to))
\* One component: the blanks, its slashes, its text; slashes alone after a
\* blank or at the start are a component.
FilePart(e) ==
    LET p == Blanks(e, e.point)
        slashes == Back(e, p, LAMBDA c : c # "/")
        alone == p > 0 /\ e.line[p] = "/" /\ (slashes = 0 \/ White(e.line[slashes]))
        skipped == Back(e, p, LAMBDA c : ~White(c) /\ c # "/")
    IN At(e, IF alone THEN slashes ELSE Back(e, skipped, LAMBDA c : White(c) \/ c = "/"))
rl_unix_filename_rubout(e, n) ==
    LET to == Times(Most(n, 1), FilePart, e).point
    IN IF e.point = 0 THEN e ELSE MarkHere(At(rl_kill_text(e, e.point, to), to))

region_kill_internal(e, delete) ==
    LET text == Cut(e.line, Least(e.point, e.mark), Most(e.point, e.mark))
        cut == IF delete THEN rl_delete_text(e, e.point, e.mark) ELSE e
        copied == _rl_copy_to_kill_ring(cut, text, e.point < cut.mark)
    IN Killing(_rl_fix_point(IF e.mark = e.point THEN e ELSE copied))
rl_copy_region_to_kill(e, n) == region_kill_internal(e, FALSE)
rl_kill_region(e, n) ==
    _rl_fix_point(At(region_kill_internal(e, TRUE), Least(e.point, e.mark)))
rl_copy_forward_word(e, n) ==
    LET there == rl_forward_word(e, n)
        back == rl_backward_word(there, n)
        copied == region_kill_internal([back EXCEPT !.mark = there.point], FALSE)
    IN [copied EXCEPT !.mark = e.mark, !.point = e.point]
rl_copy_backward_word(e, n) == rl_copy_forward_word(e, -n)

rl_yank(e, n) ==
    IF e.ring = <<>> THEN _rl_abort_internal(e)
    ELSE rl_insert_text([e EXCEPT !.mark = e.point], e.ring[e.slot])
rl_yank_pop(e, n) ==
    LET text == e.ring[e.slot]
        from == e.point - Len(text)
        cut == At(rl_delete_text(e, from, e.point), from)
    IN IF /\ e.last \in {"rl_yank", "rl_yank_pop"}
          /\ e.ring # <<>>
          /\ from >= 0 /\ Cut(e.line, from, e.point) = text
       THEN rl_yank([cut EXCEPT !.slot = IF @ = 1 THEN Len(e.ring) ELSE @ - 1], 1)
       ELSE _rl_abort_internal(e)
rl_bracketed_paste_begin(e, n) ==
    LET pasted == _rl_bracketed_text(e)
    IN rl_insert_text([pasted.e EXCEPT !.mark = e.point], pasted.text)

----
(* Inserting and deleting. *)

\* Many copies go in as strings of TEXT_COUNT_MAX, each a change of its own.
RECURSIVE _rl_insert_char(_, _, _)
_rl_insert_char(e, n, c) ==
    LET k == Least(n, TEXT_COUNT_MAX)
    IN IF n <= 0 THEN e
       ELSE _rl_insert_char(rl_insert_text(e, [i \in 1..k |-> c]), n - k, c)

_rl_rubout_char(e, n) ==
    LET to == IF n > 1 \/ e.explicit THEN rl_backward_char(e, n).point ELSE e.point - 1
    IN CASE e.point = 0 -> e
         [] n > 1 \/ e.explicit -> rl_kill_text(At(e, to), e.point, to)
         [] OTHER -> rl_delete_text(At(e, to), to, e.point)
rl_delete(e, n) ==
    CASE n < 0 -> _rl_rubout_char(e, -n)
      [] e.point = End(e) -> e
      [] n > 1 \/ e.explicit ->
           At(rl_kill_text(e, e.point, rl_forward_char(e, n).point), e.point)
      [] OTHER -> rl_delete_text(e, e.point, e.point + 1)

_rl_overwrite_char(e, n, c) ==
    LET one(x) == LET put == rl_insert_text(x, <<c>>)
                  IN IF put.point < End(put) THEN rl_delete(put, 1) ELSE put
    IN rl_end_undo_group(Times(n, one, rl_begin_undo_group(e)))
_rl_overwrite_rubout(e, n) ==
    LET to == rl_backward_char(e, Most(n, 0)).point
        begun == At(rl_begin_undo_group(e), to)
        cut == IF n > 1 \/ e.explicit THEN rl_kill_text(begun, e.point, to)
               ELSE rl_delete_text(begun, e.point, to)
        spaced == At(_rl_insert_char(cut, e.point - to, " "), to)
    IN IF e.point = 0 THEN e
       ELSE rl_end_undo_group(IF cut.point < End(cut) THEN spaced ELSE cut)
rl_rubout(e, n) ==
    CASE n < 0 -> rl_delete(e, -n)
      [] n >= 0 /\ e.overwrite -> _rl_overwrite_rubout(e, n)
      [] OTHER -> _rl_rubout_char(e, n)
rl_rubout_or_delete(e, n) ==
    IF End(e) # 0 /\ e.point = End(e)
    THEN IF n < 0 THEN rl_delete(e, -n) ELSE _rl_rubout_char(e, n)
    ELSE rl_delete(e, n)

\* Keys that are already waiting and bound to rl_insert go in at once; the
\* first other key stays pending.
Typed(e, n, c) ==
    IF e.overwrite THEN _rl_overwrite_char(e, n, c) ELSE _rl_insert_char(e, n, c)
RECURSIVE Batch(_)
Batch(e) ==
    IF e.input = <<>> THEN e
    ELSE IF Bound(e, Head(e.input)) = "rl_insert"
         THEN Batch(Typed(ReadKey(e), 1, Head(e.input)))
         ELSE [_rl_reset_argument(e) EXCEPT !.pending = TRUE, !.last = "rl_insert"]
rl_insert(e, n) == Batch(Typed(e, n, e.key))

_rl_insert_next(e, n) ==
    IF NextKey(e) = EOF THEN e ELSE _rl_insert_char(ReadKey(e), n, NextKey(e))
rl_quoted_insert(e, n) ==
    LET one(x) == _rl_insert_next(x, 1)
    IN IF n < 0 THEN Times(-n, one, e) ELSE _rl_insert_next(e, n)
rl_tab_insert(e, n) == _rl_insert_char(e, n, "TAB")

rl_delete_horizontal_space(e, n) ==
    LET from == Blanks(e, e.point)
        to == Ahead(e, e.point, LAMBDA c : ~White(c))
    IN At(IF from = to THEN e ELSE rl_delete_text(e, from, to), from)

\* Case: the entry for undo is made before the text changes.
rl_change_case(e, n, op) ==
    LET moved == rl_forward_word(e, n).point
        from == Least(e.point, moved)  to == Most(e.point, moved)
        begins(i) == i = from + 1 \/ ~Alphabetic(e.line[i - 1])
        recased(i) ==
            LET c == e.line[i]  up == op = "up" \/ (op = "cap" /\ begins(i))
            IN IF up THEN IF c \in DOMAIN Capital THEN Capital[c] ELSE c
               ELSE IF c \in DOMAIN Small THEN Small[c] ELSE c
    IN [rl_modifying(e, from, to) EXCEPT !.point = IF n < 0 THEN e.point ELSE to,
          !.line = [i \in DOMAIN @ |-> IF i \in (from + 1)..to THEN recased(i) ELSE @[i]]]
rl_upcase_word(e, n) == rl_change_case(e, n, "up")
rl_downcase_word(e, n) == rl_change_case(e, n, "down")
rl_capitalize_word(e, n) == rl_change_case(e, n, "cap")

rl_transpose_words(e, n) ==
    LET end2 == rl_forward_word(e, n)
        beg2 == rl_backward_word(end2, 1)
        beg1 == rl_backward_word(beg2, n)
        end1 == rl_forward_word(beg1, 1)
        word1 == Cut(e.line, beg1.point, end1.point)
        word2 == Cut(e.line, beg2.point, end2.point)
        second == rl_insert_text(rl_delete_text(At(rl_begin_undo_group(e), beg2.point),
                                                beg2.point, end2.point), word1)
        first == rl_insert_text(rl_delete_text(At(second, beg1.point),
                                               beg1.point, end1.point), word2)
    IN IF n = 0 \/ beg1.point = beg2.point \/ beg2.point < end1.point THEN e
       ELSE rl_end_undo_group(At(first, end2.point))

rl_transpose_chars(e, n) ==
    LET at == IF e.point = End(e) THEN e.point - 1 ELSE e.point
        count == IF e.point = End(e) THEN 1 ELSE n
        from == Most(at - 1, 0)
        cut == rl_delete_text(At(rl_begin_undo_group(e), from), from, at)
        to == Most(0, Least(from + Most(count, 0), End(cut)))
    IN IF n = 0 \/ e.point = 0 \/ End(e) < 2 THEN e
       ELSE rl_end_undo_group(rl_insert_text(At(cut, to), <<e.line[at]>>))
====
