---- MODULE Keymaps ----
(***************************************************************************)
(* Which command a key runs: the tables of src/lib/readline/emacs_keymap.c *)
(* and vi_keymap.c with the arrow and function keys that readline.c and    *)
(* terminal.c bind.  A key is a name: "a", "C-k", "M-f" (ESC and f),       *)
(* "C-xC-u"; a key sequence is one key, and "ESC" is the escape key that   *)
(* no bound sequence continues.  Keyboard macros, the init file and the    *)
(* dispatching of key sequences are KeyBindings and KeyDispatch.           *)
(***************************************************************************)
EXTENDS Naturals

CONSTANTS Printable,         \* the characters the users type
          Inputrc            \* the user's own bindings: command |-> keys
ASSUME BindingAssumption == DOMAIN Inputrc # {} => \A f \in DOMAIN Inputrc : Inputrc[f] # {}

Tens == {"0", "1", "2", "3", "4", "5", "6", "7", "8", "9"}

ArrowKeys ==
    [rl_get_previous_history |-> {"UP"}, rl_get_next_history |-> {"DOWN"},
     rl_forward_char |-> {"RIGHT"}, rl_backward_char |-> {"LEFT"},
     rl_beg_of_line |-> {"HOME"}, rl_end_of_line |-> {"END"},
     rl_forward_word |-> {"C-RIGHT"}, rl_backward_word |-> {"C-LEFT"},
     rl_kill_word |-> {"C-DEL"}, rl_bracketed_paste_begin |-> {"PASTE"},
     rl_delete |-> {"DEL"}, rl_overwrite_mode |-> {"INS"},
     rl_history_search_forward |-> {"PGDN"}, rl_history_search_backward |-> {"PGUP"}]

EmacsStandard ==
    [rl_set_mark |-> {"C-@"}, rl_beg_of_line |-> {"C-a"}, rl_backward_char |-> {"C-b"},
     rl_delete |-> {"C-d"}, rl_end_of_line |-> {"C-e"}, rl_forward_char |-> {"C-f"},
     rl_abort |-> {"C-g"}, rl_rubout |-> {"C-h", "RUBOUT"}, rl_newline |-> {"C-j", "RET"},
     rl_kill_line |-> {"C-k"}, rl_get_next_history |-> {"C-n"},
     rl_operate_and_get_next |-> {"C-o"}, rl_get_previous_history |-> {"C-p"},
     rl_quoted_insert |-> {"C-q", "C-v"}, rl_reverse_search_history |-> {"C-r"},
     rl_forward_search_history |-> {"C-s"}, rl_transpose_chars |-> {"C-t"},
     rl_unix_line_discard |-> {"C-u"}, rl_unix_word_rubout |-> {"C-w"},
     rl_yank |-> {"C-y"}, rl_char_search |-> {"C-]"}, rl_undo_command |-> {"C-_"},
     rl_complete |-> {"TAB"}]
EmacsMeta ==
    [rl_abort |-> {"M-C-g"}, rl_backward_kill_word |-> {"M-C-h", "M-RUBOUT"},
     rl_tab_insert |-> {"M-C-i"}, rl_vi_editing_mode |-> {"M-C-j"},
     rl_revert_line |-> {"M-C-r", "M-r"}, rl_yank_nth_arg |-> {"M-C-y"},
     rl_backward_char_search |-> {"M-C-]"}, rl_set_mark |-> {"M-SPACE"},
     rl_digit_argument |-> {"M--", "M-2", "M-3"}, rl_yank_last_arg |-> {"M-.", "M-_"},
     rl_beginning_of_history |-> {"M-<"}, rl_end_of_history |-> {"M->"},
     rl_delete_horizontal_space |-> {"M-\\"}, rl_insert_comment |-> {"M-#"},
     rl_backward_word |-> {"M-b"}, rl_capitalize_word |-> {"M-c"}, rl_kill_word |-> {"M-d"},
     rl_forward_word |-> {"M-f"}, rl_downcase_word |-> {"M-l"},
     rl_noninc_forward_search |-> {"M-n"}, rl_noninc_reverse_search |-> {"M-p"},
     rl_transpose_words |-> {"M-t"}, rl_upcase_word |-> {"M-u"}, rl_yank_pop |-> {"M-y"},
     rl_execute_named_command |-> {"M-x"},
     rl_complete |-> {"M-ESC"}, rl_tilde_expand |-> {"M-&", "M-~"},
     rl_insert_completions |-> {"M-*"}, rl_possible_completions |-> {"M-=", "M-?"}]
EmacsCtlx ==
    [rl_abort |-> {"C-xC-g"}, rl_undo_command |-> {"C-xC-u"},
     rl_exchange_point_and_mark |-> {"C-xC-x"}, rl_backward_kill_line |-> {"C-xRUBOUT"}]

ViMovement ==
    [rl_vi_eof_maybe |-> {"C-d"}, rl_emacs_editing_mode |-> {"C-e"}, rl_abort |-> {"C-g"},
     rl_backward_char |-> {"C-h", "h"}, rl_newline |-> {"C-j", "RET"},
     rl_kill_line |-> {"C-k"}, rl_get_next_history |-> {"C-n", "+", "j"},
     rl_get_previous_history |-> {"C-p", "-", "k"}, rl_quoted_insert |-> {"C-q", "C-v"},
     rl_reverse_search_history |-> {"C-r"}, rl_forward_search_history |-> {"C-s"},
     rl_transpose_chars |-> {"C-t"}, rl_unix_line_discard |-> {"C-u"},
     rl_vi_unix_word_rubout |-> {"C-w"}, rl_yank |-> {"C-y"}, rl_vi_undo |-> {"C-_", "u"},
     rl_forward_char |-> {" ", "l"}, rl_end_of_line |-> {"$"}, rl_vi_match |-> {"%"},
     rl_vi_char_search |-> {",", ";", "F", "T", "f", "t"}, rl_vi_redo |-> {"."},
     rl_vi_search |-> {"/", "?"}, rl_beg_of_line |-> {"0"},
     rl_vi_arg_digit |-> Tens \ {"0"}, rl_vi_append_eol |-> {"A"},
     rl_vi_prev_word |-> {"B", "b"}, rl_vi_change_to |-> {"C", "c"},
     rl_vi_delete_to |-> {"D", "d"}, rl_vi_end_word |-> {"E", "e"},
     rl_vi_fetch_history |-> {"G"}, rl_vi_insert_beg |-> {"I"},
     rl_vi_search_again |-> {"N", "n"}, rl_vi_put |-> {"P", "p"}, rl_vi_replace |-> {"R"},
     rl_vi_subst |-> {"S", "s"}, rl_revert_line |-> {"U"}, rl_vi_next_word |-> {"W", "w"},
     rl_vi_rubout |-> {"X"}, rl_vi_yank_to |-> {"Y", "y"}, rl_vi_first_print |-> {"^"},
     rl_vi_yank_arg |-> {"_"}, rl_vi_goto_mark |-> {"BACKQUOTE"}, rl_vi_append_mode |-> {"a"},
     rl_vi_insert_mode |-> {"i"}, rl_vi_set_mark |-> {"m"}, rl_vi_change_char |-> {"r"},
     rl_vi_delete |-> {"x"}, rl_vi_column |-> {"|"}, rl_vi_change_case |-> {"~"},
     rl_vi_tilde_expand |-> {"&"}, rl_vi_complete |-> {"*", "=", "\\"}]
ViInsertion ==
    [rl_vi_eof_maybe |-> {"C-d"}, rl_rubout |-> {"C-h", "RUBOUT"}, rl_newline |-> {"C-j", "RET"},
     rl_reverse_search_history |-> {"C-r"}, rl_forward_search_history |-> {"C-s"},
     rl_transpose_chars |-> {"C-t"}, rl_unix_line_discard |-> {"C-u"},
     rl_quoted_insert |-> {"C-v"}, rl_vi_unix_word_rubout |-> {"C-w"}, rl_yank |-> {"C-y"},
     rl_vi_movement_mode |-> {"ESC"}, rl_vi_undo |-> {"C-_"}, rl_complete |-> {"TAB"},
     rl_menu_complete |-> {"C-n"}, rl_backward_menu_complete |-> {"C-p"}]
\* The map of R: the insertion map, but what changes the text counts it.
Counting == {"rl_rubout", "rl_unix_line_discard", "rl_vi_unix_word_rubout", "rl_yank"}
ViReplace ==
    [f \in DOMAIN ViInsertion |-> IF f \in Counting THEN {} ELSE ViInsertion[f]]
Overstrike ==
    [rl_vi_overstrike_delete |-> {"C-h", "RUBOUT"}, rl_vi_overstrike_kill_line |-> {"C-u"},
     rl_vi_overstrike_kill_word |-> {"C-w"}, rl_vi_overstrike_yank |-> {"C-y"},
     rl_vi_overstrike_bracketed_paste |-> {"PASTE"}, rl_vi_overstrike |-> Printable]

Tables ==
    [emacs |-> {EmacsStandard, EmacsMeta, EmacsCtlx, ArrowKeys, Inputrc},
     movement |-> {ViMovement, ArrowKeys}, insertion |-> {ViInsertion, ArrowKeys},
     replace |-> {Overstrike, ViReplace}]
Binding ==
    [map \in DOMAIN Tables |->
        LET bound(f) == UNION {t[f] : t \in {u \in Tables[map] : f \in DOMAIN u}}
            commands == UNION {DOMAIN t : t \in Tables[map]}
        IN [k \in UNION {bound(f) : f \in commands} |->
              CHOOSE f \in commands : k \in bound(f)]]

(* The command bound to key k, and what an unbound key is: a character of  *)
(* the line, or nothing.                                                   *)
Bound(e, k) ==
    IF k \in DOMAIN Binding[e.map] THEN Binding[e.map][k]
    ELSE IF k \in Printable /\ e.map \in {"emacs", "insertion"} THEN "rl_insert"
    ELSE "rl_unbound"
====
