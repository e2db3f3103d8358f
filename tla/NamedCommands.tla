---- MODULE NamedCommands ----
(***************************************************************************)
(* Reading the name of a command in the place of the line and running it:  *)
(* M-x, the readstr functions and rl_execute_named_command at the end of   *)
(* src/lib/readline/text.c.  The line is put aside as the searches do it,  *)
(* but in a record of its own, and it comes back before the command runs.  *)
(***************************************************************************)
EXTENDS ViMode

CONSTANT Names               \* funmap.c: names, as they are typed, to commands
Runnable == {"rl_kill_line", "rl_kill_word", "rl_yank", "rl_yank_pop", "rl_undo_command",
             "rl_upcase_word", "rl_get_previous_history", "rl_complete", "rl_newline"}
ASSUME NameAssumption == \A name \in DOMAIN Names : name # <<>> /\ Names[name] \in Runnable

_rl_readstr_init(e) ==
    LET changed == rl_maybe_replace_line(e)
    IN [e |-> [changed EXCEPT !.undo = 0, !.line = <<>>, !.point = 0],
        line |-> _rl_alloc_saved_line(changed), point |-> e.point, mark |-> e.mark,
        how |-> "reading"]
_rl_readstr_restore(c) ==
    LET back == _rl_unsave_line(_rl_free_undo_list(c.e, c.e.undo), c.line)
    IN _rl_fix_point([back EXCEPT !.point = c.point, !.mark = c.mark])
GivenUp(c) == [c EXCEPT !.how = "aborted", !.e = _rl_readstr_restore(c)]

\* TAB and space complete the name: what the matches have in common is
\* typed, and when there is nothing of that kind they are listed; C-g at the
\* question of a listing leaves at once, and what was typed stays as the line.
readcmd_completion_function(text) == {name \in DOMAIN Names : IsPrefix(text, name)}
_rl_readcmd_complete(e) ==
    LET matches == rl_completion_matches(e, e.line, readcmd_completion_function(e.line))
        typed(x, k) == _rl_insert_char(x, 1, k)
    IN CASE matches = <<>> -> e
         [] matches # <<>> /\ Len(matches[1]) > End(e) ->
              FoldLeft(typed, e, Cut(matches[1], End(e), Len(matches[1])))
         [] OTHER -> IF Len(matches) = 1 THEN e
                     ELSE rl_display_match_list(e, Len(matches) - 1, 0)

_rl_readstr_dispatch(c) ==
    LET k == NextKey(c.e)
        read == ReadKey(c.e)
        goes(x) == [c EXCEPT !.e = x]
    IN CASE k \in {EOF, "C-c", "C-g"} -> GivenUp(goes(read))
         [] k = "C-w" -> goes(rl_unix_word_rubout(read, 1))
         [] k = "C-u" -> goes(rl_unix_line_discard(read, 1))
         [] k \in {"C-q", "C-v"} -> IF NextKey(read) = EOF THEN GivenUp(goes(read))
                                   ELSE goes(rl_quoted_insert(read, 1))
         [] k \in {"RET", "C-j"} -> [goes(read) EXCEPT !.how = "read"]
         [] k \in {"C-h", "RUBOUT"} -> IF c.e.point = 0 THEN GivenUp(goes(read))
                                      ELSE goes(_rl_rubout_char(read, 1))
         [] k = "PASTE" -> goes(rl_bracketed_paste_begin(read, 1))
         [] k \in {" ", "TAB"} ->
              LET x == _rl_readcmd_complete(read)
              IN [goes(x) EXCEPT !.how = IF x.aborted THEN "aborted" ELSE @]
         [] OTHER -> goes(_rl_insert_char(read, 1, k))
RECURSIVE _rl_read_command_name(_)
_rl_read_command_name(c) ==
    IF c.how = "reading" THEN _rl_read_command_name(_rl_readstr_dispatch(c)) ELSE c

Named(f, e, n) ==
    CASE f = "rl_kill_line" -> rl_kill_line(e, n)
      [] f = "rl_kill_word" -> rl_kill_word(e, n)
      [] f = "rl_yank" -> rl_yank(e, n)
      [] f = "rl_yank_pop" -> rl_yank_pop(e, n)
      [] f = "rl_undo_command" -> rl_undo_command(e, n)
      [] f = "rl_upcase_word" -> rl_upcase_word(e, n)
      [] f = "rl_get_previous_history" -> rl_get_previous_history(e, n)
      [] f = "rl_complete" -> rl_complete(e, n)
      [] f = "rl_newline" -> rl_newline(e, n)
\* The command runs with the argument M-x was given.
rl_execute_named_command(e, n) ==
    LET c == _rl_read_command_name(_rl_readstr_init(e))
        back == _rl_readstr_restore(c)
    IN CASE c.how = "aborted" -> c.e
         [] c.how = "read" /\ c.e.line \in DOMAIN Names -> Named(Names[c.e.line], back, n)
         [] OTHER -> back
====
