---- MODULE Editor ----
(***************************************************************************)
(* The line editor of the shell: readline() called again and again by      *)
(* src/main.c.  A key runs the command its keymap binds it to, and the     *)
(* editor goes on as readline_internal_char does; when a command has       *)
(* finished the line, the history gets its entry back, the shell saves the *)
(* line, and the editor starts on an empty one.                            *)
(*   rl          the editor: the fields LineEditing, TextCommands,         *)
(*               HistoryCommands and ViMode describe, done: rl_done,       *)
(*               resume: saved_history_logical_offset, pending: a prefix   *)
(*               command or rl_execute_next left its key to the next step, *)
(*               aborted: the command ended in _rl_abort_internal          *)
(*   session     what is left of what the users do: the steps, the keys    *)
(*               they type at once, and their settings                     *)
(* and what the properties remember:                                       *)
(*   added       the texts handed to add_history                           *)
(*   begun       the line the run of kills, or of menu completions, going  *)
(*               on began with, if one is                                  *)
(*   left        the text the user left the end of the history with        *)
(* Outside: keyboard macros and the display; Terminal has the signals.     *)
(***************************************************************************)
EXTENDS NamedCommands

CONSTANT Sessions
ASSUME SessionAssumption ==
    \A s \in Sessions :
        /\ s.vi \in BOOLEAN /\ s.revert \in BOOLEAN     \* editing-mode, revert-all-at-newline
        /\ DOMAIN s.set = DOMAIN Defaults
        /\ s.steps \in Nat                             \* how often the user types
        /\ \A keys \in s.keys : keys # <<>>            \* what is typed at once
        /\ \A i \in DOMAIN s.history : s.history[i] # <<>>

VARIABLES rl, session, added, begun, left
vars == <<rl, session, added, begun, left>>

----
(* Arguments and the other commands that change how the editor works.      *)

MetaDigit == [k \in {"M-2", "M-3"} |-> IF k = "M-2" THEN "2" ELSE "3"]
Digit(k) == k \in Digits \cup DOMAIN MetaDigit
Minus(k) == k \in {"-", "M--"}
\* The key that ends the argument runs in the next step, which keeps it.
RECURSIVE Argument(_, _)
Argument(e, minus) ==
    LET k == NextKey(e)
        v == DigitValue(IF k \in Digits THEN k ELSE MetaDigit[k])
    IN IF k = EOF THEN _rl_abort_internal(e)
       ELSE IF Digit(k)
       THEN Argument([ReadKey(e) EXCEPT !.numeric = IF e.explicit THEN 10 * @ + v ELSE v,
                                        !.explicit = TRUE], minus)
       ELSE IF Minus(k) /\ ~e.explicit
       THEN Argument([ReadKey(e) EXCEPT !.numeric = 1, !.sign = -1], TRUE)
       ELSE [e EXCEPT !.pending = TRUE, !.explicit = @ \/ (minus /\ e.numeric = 1)]
rl_digit_argument(e, n) == Argument([e EXCEPT !.input = <<e.key>> \o @], FALSE)
rl_vi_arg_digit(e, n) == rl_digit_argument(e, n)

rl_vi_editing_mode(e, n) ==
    rl_vi_insert_mode([e EXCEPT !.overwrite = FALSE, !.vi = TRUE], 1)
rl_emacs_editing_mode(e, n) ==
    [e EXCEPT !.vi = FALSE, !.overwrite = FALSE, !.map = "emacs"]
rl_overwrite_mode(e, n) ==
    [e EXCEPT !.overwrite = IF e.explicit THEN n > 0 ELSE ~@]
rl_abort(e, n) == _rl_abort_internal(e)
rl_unbound(e, n) == _rl_abort_internal(e)
rl_insert_comment(e, n) ==
    LET x == At(e, 0)
    IN rl_newline(IF e.explicit /\ End(e) > 0 /\ e.line[1] = "#"
                  THEN rl_delete_text(x, 0, 1) ELSE rl_insert_text(x, <<"#">>), 1)
rl_operate_and_get_next(e, n) ==
    [rl_newline(e, 1) EXCEPT !.resume = IF ~e.explicit THEN <<e.pos + 1>>
                                        ELSE IF n < 0 THEN <<>> ELSE <<n - 1>>]

----
(* One line after the other.                                               *)

readline_common_teardown(e) ==
    LET back == rl_revert_line(e)
        changed == Current(e) # NoLine /\ e.undo # 0
        put == IF changed
               THEN [replace_history_entry(back, back.pos, back.line, 0) EXCEPT !.line = e.line]
               ELSE e
        all == IF session.revert THEN _rl_revert_all_lines(put) ELSE put
    IN IF all.undo # 0 THEN rl_free_undo_list(all) ELSE all
readline_internal_teardown(e) == [readline_common_teardown(e) EXCEPT !.overwrite = FALSE]

set_saved_history(e) ==
    IF e.resume = <<>> THEN e
    ELSE [rl_get_previous_history(e, e.pos - e.resume[1]) EXCEPT !.resume = <<>>]
_rl_start_using_history(e) ==
    LET freed == IF e.saved = NoLine THEN e ELSE _rl_free_undo_list(e, e.saved.data)
    IN [freed EXCEPT !.pos = Len(e.hist), !.saved = NoLine, !.hsearch.pos = -99]
_rl_vi_initialize_line(e) == [e EXCEPT !.marks = [k \in Letters |-> -1], !.once = FALSE]
rl_initialize(e) ==
    LET empty == [e EXCEPT !.line = <<>>, !.point = 0, !.mark = 0, !.done = FALSE]
        started == [_rl_start_using_history(empty) EXCEPT !.last = "", !.overwrite = FALSE]
    IN IF e.vi THEN _rl_vi_initialize_line(started) ELSE started
readline_internal_setup(e) ==
    LET resumed == set_saved_history(e)
    IN IF e.vi THEN [resumed EXCEPT !.map = "insertion", !.before = "i"] ELSE resumed
\* What main and readline do before the first key of a line is read.
Begin(e) == readline_internal_setup(rl_initialize(e))

Init ==
    /\ session \in Sessions
    /\ added = session.history
    /\ begun = {} /\ left = {}
    /\ rl = [line |-> <<>>, point |-> 0, mark |-> 0, undo |-> 0, node |-> <<>>, level |-> 0,
             hist |-> [i \in DOMAIN session.history |->
                         [line |-> session.history[i], data |-> 0]],
             pos |-> Len(session.history), saved |-> NoLine, vi |-> session.vi,
             map |-> IF session.vi THEN "insertion" ELSE "emacs",
             explicit |-> FALSE, numeric |-> 1, sign |-> 1, ring |-> <<>>, slot |-> 1,
             kill |-> FALSE, killed |-> FALSE, input |-> session.start, key |-> "", pending |-> FALSE,
             last |-> "", aborted |-> FALSE, overwrite |-> FALSE, done |-> FALSE,
             nsearch |-> [string |-> <<>>, pos |-> 0],
             hsearch |-> [string |-> <<>>, pos |-> -99, len |-> 0, anchored |-> FALSE,
                          prev |-> {}, found |-> {}, col |-> -1],
             isearch |-> <<>>, resume |-> <<>>, kept |-> 0,
             yla |-> [skip |-> 0, explicit |-> FALSE, count |-> 1, dir |-> 1, undo |-> FALSE],
             vlast |-> LastCommand("i", 1, 1), motion |-> "", target |-> <<>>, way |-> "",
             replacement |-> "", before |-> IF session.vi THEN "i" ELSE "", doing |-> FALSE,
             count |-> 0, typed |-> <<>>, redoing |-> FALSE, once |-> FALSE,
             marks |-> [k \in Letters |-> IF session.vi THEN -1 ELSE 0],
             set |-> session.set, changed |-> FALSE, failed |-> FALSE, old |-> NoMenu, menu |-> NoMenu]

Type ==
    /\ rl.input = <<>> /\ ~rl.done
    /\ session.steps > 0
    /\ \E keys \in session.keys : rl' = [rl EXCEPT !.input = keys]
    /\ session' = [session EXCEPT !.steps = @ - 1]
    /\ UNCHANGED <<added, begun, left>>

\* readline_internal_char around the command: a kill, and an argument, count
\* for the next command only; in the vi movement map the cursor is on a character.
Key == Head(rl.input)
Reading(e) == ~e.done /\ e.input # <<>>
ReadCommand(e) ==
    LET argued == IF e.pending THEN e ELSE _rl_reset_argument(e)
    IN [argued EXCEPT !.key = Head(e.input), !.input = Tail(@), !.aborted = FALSE,
                      !.killed = FALSE, !.pending = FALSE]
rl_vi_check(e) ==
    IF CommandMode(e) /\ e.point > 0 /\ e.point = End(e) THEN At(e, e.point - 1) ELSE e
Cleanup(e, f) ==
    LET known == [Remembered(e, e.key) EXCEPT !.kill = e.killed, !.last = f]
    IN IF e.aborted THEN e
       ELSE rl_vi_check(IF e.pending THEN e ELSE known)
EndOfInput(e) == Head(e.input) = "C-d" /\ End(e) = 0

Kills == {"rl_kill_word", "rl_backward_kill_word", "rl_kill_line", "rl_backward_kill_line",
          "rl_unix_line_discard", "rl_unix_word_rubout", "rl_unix_filename_rubout"}
ViSearches == {"rl_vi_search", "rl_vi_search_again"}
Command(f, Op(_, _)) ==
    /\ Reading(rl)
    /\ Bound(rl, Key) = f
    /\ ~EndOfInput(rl)
    /\ LET e == ReadCommand(rl) IN rl' = Cleanup(Op(e, e.numeric * e.sign), f)
    /\ begun' = IF \/ f \in Kills /\ rl.kill
                   \/ f = "rl_old_menu_complete" /\ rl.last = f THEN begun
                ELSE IF f \in Kills \cup {"rl_old_menu_complete"} THEN {rl.line} ELSE {}
    /\ left' = CASE AtEnd(rl) /\ f \in ViSearches -> {}
                [] AtEnd(rl) /\ f \notin ViSearches -> {rl.line}
                [] OTHER -> left
    /\ UNCHANGED <<session, added>>

\* readline returns: the shell saves the line when it differs from the last
\* one, and asks for the next.
save_history(e, line) ==
    IF line = <<>> \/ (added # <<>> /\ line = added[Len(added)]) THEN e
    ELSE [e EXCEPT !.hist = Append(@, [line |-> line, data |-> 0])]
Return ==
    /\ rl.done
    /\ LET e == readline_internal_teardown(rl)
       IN /\ rl' = Begin(save_history(e, e.line))
          /\ added' = IF Len(save_history(e, e.line).hist) > Len(e.hist)
                      THEN Append(added, e.line) ELSE added
    /\ left' = {<<>>}
    /\ UNCHANGED <<session, begun>>
EndOfFile ==
    /\ Reading(rl) /\ EndOfInput(rl)
    /\ rl' = Begin([readline_internal_teardown(ReadCommand(rl)) EXCEPT !.input = <<>>])
    /\ left' = {<<>>}
    /\ UNCHANGED <<session, added, begun>>

----
(* The commands. *)

Move ==
    \/ Command("rl_forward_char", rl_forward_char)
    \/ Command("rl_backward_char", rl_backward_char)
    \/ Command("rl_beg_of_line", rl_beg_of_line)
    \/ Command("rl_end_of_line", rl_end_of_line)
    \/ Command("rl_forward_word", rl_forward_word)
    \/ Command("rl_backward_word", rl_backward_word)
    \/ Command("rl_previous_screen_line", rl_previous_screen_line)
    \/ Command("rl_next_screen_line", rl_next_screen_line)
    \/ Command("rl_set_mark", rl_set_mark)
    \/ Command("rl_exchange_point_and_mark", rl_exchange_point_and_mark)
    \/ Command("rl_char_search", rl_char_search)
    \/ Command("rl_backward_char_search", rl_backward_char_search)
Kill ==
    \/ Command("rl_kill_word", rl_kill_word)
    \/ Command("rl_backward_kill_word", rl_backward_kill_word)
    \/ Command("rl_kill_line", rl_kill_line)
    \/ Command("rl_backward_kill_line", rl_backward_kill_line)
    \/ Command("rl_kill_full_line", rl_kill_full_line)
    \/ Command("rl_unix_line_discard", rl_unix_line_discard)
    \/ Command("rl_unix_word_rubout", rl_unix_word_rubout)
    \/ Command("rl_unix_filename_rubout", rl_unix_filename_rubout)
    \/ Command("rl_kill_region", rl_kill_region)
    \/ Command("rl_copy_region_to_kill", rl_copy_region_to_kill)
    \/ Command("rl_copy_forward_word", rl_copy_forward_word)
    \/ Command("rl_copy_backward_word", rl_copy_backward_word)
    \/ Command("rl_yank", rl_yank)
    \/ Command("rl_yank_pop", rl_yank_pop)
    \/ Command("rl_yank_nth_arg", rl_yank_nth_arg)
    \/ Command("rl_yank_last_arg", rl_yank_last_arg)
Change ==
    \/ Command("rl_insert", rl_insert)
    \/ Command("rl_quoted_insert", rl_quoted_insert)
    \/ Command("rl_tab_insert", rl_tab_insert)
    \/ Command("rl_bracketed_paste_begin", rl_bracketed_paste_begin)
    \/ Command("rl_delete", rl_delete)
    \/ Command("rl_rubout", rl_rubout)
    \/ Command("rl_rubout_or_delete", rl_rubout_or_delete)
    \/ Command("rl_delete_horizontal_space", rl_delete_horizontal_space)
    \/ Command("rl_upcase_word", rl_upcase_word)
    \/ Command("rl_downcase_word", rl_downcase_word)
    \/ Command("rl_capitalize_word", rl_capitalize_word)
    \/ Command("rl_transpose_words", rl_transpose_words)
    \/ Command("rl_transpose_chars", rl_transpose_chars)
Complete ==
    \/ Command("rl_complete", rl_complete)
    \/ Command("rl_possible_completions", rl_possible_completions)
    \/ Command("rl_insert_completions", rl_insert_completions)
    \/ Command("rl_old_menu_complete", rl_old_menu_complete)
    \/ Command("rl_menu_complete", rl_menu_complete)
    \/ Command("rl_backward_menu_complete", rl_backward_menu_complete)
    \/ Command("rl_tilde_expand", rl_tilde_expand)
    \/ Command("rl_vi_complete", rl_vi_complete)
    \/ Command("rl_vi_tilde_expand", rl_vi_tilde_expand)
Undo ==
    \/ Command("rl_undo_command", rl_undo_command)
    \/ Command("rl_revert_line", LAMBDA e, n : rl_revert_line(e))
GoThroughHistory ==
    \/ Command("rl_get_previous_history", rl_get_previous_history)
    \/ Command("rl_get_next_history", rl_get_next_history)
    \/ Command("rl_beginning_of_history", rl_beginning_of_history)
    \/ Command("rl_end_of_history", rl_end_of_history)
    \/ Command("rl_fetch_history", rl_fetch_history)
    \/ Command("rl_noninc_forward_search", rl_noninc_forward_search)
    \/ Command("rl_noninc_reverse_search", rl_noninc_reverse_search)
    \/ Command("rl_history_search_forward", rl_history_search_forward)
    \/ Command("rl_history_search_backward", rl_history_search_backward)
    \/ Command("rl_history_substr_search_forward", rl_history_substr_search_forward)
    \/ Command("rl_history_substr_search_backward", rl_history_substr_search_backward)
    \/ Command("rl_reverse_search_history", rl_reverse_search_history)
    \/ Command("rl_forward_search_history", rl_forward_search_history)
Control ==
    \/ Command("rl_digit_argument", rl_digit_argument)
    \/ Command("rl_vi_arg_digit", rl_vi_arg_digit)
    \/ Command("rl_abort", rl_abort)
    \/ Command("rl_unbound", rl_unbound)
    \/ Command("rl_newline", rl_newline)
    \/ Command("rl_insert_comment", rl_insert_comment)
    \/ Command("rl_operate_and_get_next", rl_operate_and_get_next)
    \/ Command("rl_overwrite_mode", rl_overwrite_mode)
    \/ Command("rl_execute_named_command", rl_execute_named_command)
    \/ Command("rl_vi_editing_mode", rl_vi_editing_mode)
    \/ Command("rl_emacs_editing_mode", rl_emacs_editing_mode)
ViMove ==
    \/ Command("rl_vi_next_word", rl_vi_next_word)
    \/ Command("rl_vi_prev_word", rl_vi_prev_word)
    \/ Command("rl_vi_end_word", rl_vi_end_word)
    \/ Command("rl_vi_first_print", rl_vi_first_print)
    \/ Command("rl_vi_column", rl_vi_column)
    \/ Command("rl_vi_match", rl_vi_match)
    \/ Command("rl_vi_char_search", rl_vi_char_search)
    \/ Command("rl_vi_set_mark", rl_vi_set_mark)
    \/ Command("rl_vi_goto_mark", rl_vi_goto_mark)
ViInsert ==
    \/ Command("rl_vi_insert_mode", rl_vi_insert_mode)
    \/ Command("rl_vi_insert_beg", rl_vi_insert_beg)
    \/ Command("rl_vi_append_mode", rl_vi_append_mode)
    \/ Command("rl_vi_append_eol", rl_vi_append_eol)
    \/ Command("rl_vi_movement_mode", rl_vi_movement_mode)
    \/ Command("rl_vi_eof_maybe", rl_vi_eof_maybe)
    \/ Command("rl_vi_replace", rl_vi_replace)
    \/ Command("rl_vi_overstrike", rl_vi_overstrike)
    \/ Command("rl_vi_overstrike_delete", rl_vi_overstrike_delete)
    \/ Command("rl_vi_overstrike_kill_line", rl_vi_overstrike_kill_line)
    \/ Command("rl_vi_overstrike_kill_word", rl_vi_overstrike_kill_word)
    \/ Command("rl_vi_overstrike_yank", rl_vi_overstrike_yank)
    \/ Command("rl_vi_overstrike_bracketed_paste", rl_vi_overstrike_bracketed_paste)
ViChange ==
    \/ Command("rl_vi_delete_to", rl_vi_delete_to)
    \/ Command("rl_vi_change_to", rl_vi_change_to)
    \/ Command("rl_vi_yank_to", rl_vi_yank_to)
    \/ Command("rl_vi_subst", rl_vi_subst)
    \/ Command("rl_vi_delete", rl_vi_delete)
    \/ Command("rl_vi_rubout", rl_vi_rubout)
    \/ Command("rl_vi_put", rl_vi_put)
    \/ Command("rl_vi_unix_word_rubout", rl_vi_unix_word_rubout)
    \/ Command("rl_vi_change_case", rl_vi_change_case)
    \/ Command("rl_vi_change_char", rl_vi_change_char)
    \/ Command("rl_vi_redo", rl_vi_redo)
    \/ Command("rl_vi_undo", rl_vi_undo)
    \/ Command("rl_vi_yank_arg", rl_vi_yank_arg)
ViHistory ==
    \/ Command("rl_vi_fetch_history", rl_vi_fetch_history)
    \/ Command("rl_vi_search", rl_vi_search)
    \/ Command("rl_vi_search_again", rl_vi_search_again)

Next ==
    \/ Type \/ Return \/ EndOfFile
    \/ Move \/ Kill \/ Change \/ Complete \/ Undo \/ GoThroughHistory \/ Control
    \/ ViMove \/ ViInsert \/ ViChange \/ ViHistory
Spec == Init /\ [][Next]_vars

----
(* Properties. *)

\* The cursor and the mark stay in the line, the position in the history, the
\* slot in a kill ring of bounded length, and the keymap is one of the mode,
\* whatever the commands do and leave behind when they give up.
TypeOK ==
    /\ rl.point \in 0..End(rl) /\ rl.mark \in 0..End(rl)
    /\ rl.pos \in 0..Len(rl.hist)
    /\ rl.ring # <<>> => rl.slot \in DOMAIN rl.ring
    /\ Len(rl.ring) <= MaxKills
    /\ rl.vi = (rl.map # "emacs")

\* No list of changes that the line, a history entry or the saved line owns
\* holds a freed entry: rl_do_undo pops what several may point to, and
\* rl_free_undo_list frees it.
NoFreedUndo ==
    LET owned == {rl.undo, rl.saved.data} \cup {rl.hist[i].data : i \in DOMAIN rl.hist}
    IN TypeOK /\ \A a \in owned : \A i \in Chain(rl, a) : rl.node[i] # Freed

\* What kills one after the other cut out is one slot of the ring, in the
\* order of the text: yanking it gives back the line they began with.
KillsComeBack ==
    rl.kill /\ ~rl.vi => \A line \in begun : Inserted(rl, rl.ring[rl.slot]).line = line

\* A command that changes the text records enough to take it back, when the
\* list of changes it found is still the tail of the list it leaves.
RECURSIVE Rewound(_, _)
Rewound(e, a) == IF e.undo \in {0, a} THEN e ELSE Rewound(Taken(e), a)
Running == IF Reading(rl) THEN Bound(rl, Key) ELSE ""
Editing == Kills \cup
    {"rl_kill_full_line", "rl_kill_region", "rl_yank", "rl_yank_pop", "rl_yank_nth_arg",
     "rl_insert", "rl_quoted_insert", "rl_tab_insert", "rl_bracketed_paste_begin", "rl_delete",
     "rl_rubout", "rl_rubout_or_delete", "rl_delete_horizontal_space", "rl_upcase_word",
     "rl_downcase_word", "rl_capitalize_word", "rl_transpose_words", "rl_transpose_chars",
     "rl_vi_delete_to", "rl_vi_change_to", "rl_vi_yank_to", "rl_vi_subst", "rl_vi_delete",
     "rl_vi_rubout", "rl_vi_put", "rl_vi_unix_word_rubout", "rl_vi_change_case",
     "rl_vi_change_char", "rl_vi_redo", "rl_vi_yank_arg", "rl_vi_overstrike", "rl_complete",
     "rl_insert_completions", "rl_old_menu_complete", "rl_menu_complete",
     "rl_backward_menu_complete", "rl_tilde_expand", "rl_vi_complete", "rl_vi_tilde_expand"}
UndoGivesBack ==
    [][/\ Running \in Editing /\ ~EndOfInput(rl)
       /\ rl.undo = 0 \/ (rl.undo \in Chain(rl', rl'.undo) /\ rl'.node[rl.undo] = rl.node[rl.undo])
       => Rewound(rl', rl.undo).line = rl.line]_vars

\* Whoever goes through all the matches of a menu gets the line back that he
\* wanted completed, unless skip-completed-text makes a match swallow the text
\* after the cursor: complete.c:2690, "When we hit the end of the match list,
\* we restore the original unmatched text".
MenuGivesBack ==
    [][/\ Running = "rl_old_menu_complete" /\ ~rl.set._rl_skip_completed_text
       /\ Len(rl'.old.matches) > 1 /\ rl'.old.index = 0 /\ ~rl'.aborted
       => \A line \in begun' : rl'.line = line]_vars

\* Whoever walks through the history and comes back to its end finds the
\* line he left there, however often and from wherever he walked.
Walks == {"rl_get_previous_history", "rl_get_next_history", "rl_end_of_history"}
LineComesBack ==
    [][(Running \in Walks) /\ rl'.pos # rl.pos /\ rl'.pos = Len(rl'.hist)
       => \A line \in left : rl'.line = line]_vars

\* A search, or the name of a command, that is given up leaves the line and
\* the cursor as they were, unless the entry has the line's list of changes but
\* not its last text (rl_maybe_replace_line compares the lists), or the question
\* of a listing was answered with C-g.
Searches == {"rl_noninc_forward_search", "rl_noninc_reverse_search", "rl_vi_search",
             "rl_reverse_search_history", "rl_forward_search_history", "rl_execute_named_command"}
AbortRestores ==
    [][/\ (Running \in Searches) /\ rl.input[Len(rl.input) - Len(rl'.input)] = "C-g"
       /\ AtEnd(rl) \/ Current(rl).data # rl.undo \/ Current(rl).line = rl.line
       /\ ~rl'.aborted
       => rl'.line = rl.line /\ rl'.point = rl.point]_vars
====
