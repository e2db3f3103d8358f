---- MODULE KeyBindings ----
(***************************************************************************)
(* Keymaps, and the init file that changes them: src/lib/readline/bind.c   *)
(* and keymaps.c, with the bindings readline.c makes when it starts.       *)
(* A record b is what they work on:                                        *)
(*   maps      each keymap to the entries of the keys bound in it; an      *)
(*             entry is a function, a macro or a keymap, one that is not   *)
(*             there is null, and ANY is ANYOTHERKEY, what the keys        *)
(*             leading here did before                                     *)
(*   keymap    _rl_keymap; a keymap is named by the keys that lead to it   *)
(*   mode      rl_editing_mode                                             *)
(*   vars      the variables the file has set                              *)
(*   out ifs   _rl_parsing_conditionalized_out and the stack of $if        *)
(*   last      last_readline_init_file, NoFile for NULL                    *)
(*   local     is the locale another than C?                               *)
(* A line of an init file is a record: what it does, and with what.        *)
(***************************************************************************)
EXTENDS Integers, Sequences, TLC

CONSTANTS Printable,         \* the characters that insert themselves
          Lower,             \* a capital letter |-> the small one
          Eighth,            \* a character with the eighth bit |-> without it
          TerminalNames,     \* what $if term= may say of the terminal
          Special            \* a special character of the terminal |-> what it is
ASSUME LetterAssumption ==
    /\ \A k \in DOMAIN Lower : Lower[k] \in Printable \ DOMAIN Lower
    /\ \A k \in DOMAIN Eighth : Eighth[k] \notin DOMAIN Eighth
ASSUME SpecialAssumption ==
    \A k \in DOMAIN Special : Special[k] \in {"VERASE", "VKILL", "VLNEXT", "VWERASE"}

ANY == "ANYOTHERKEY"
NoFile == ""
Function(f) == [type |-> "ISFUNC", to |-> <<f>>]
Null == [type |-> "ISFUNC", to |-> <<>>]
Macro(keys) == [type |-> "ISMACR", to |-> keys]
Keymap(map) == [type |-> "ISKMAP", to |-> map]
LowerCase == Function("rl_do_lowercase_version")

Emacs == <<"emacs">>
Meta == <<"emacs-meta">>
Ctlx == <<"emacs-ctlx">>
Movement == <<"vi">>
Insertion == <<"vi-insert">>

rl_make_bare_keymap == [k \in {} |-> Null]
Entry(b, map, k) == IF k \in DOMAIN b.maps[map] THEN b.maps[map][k] ELSE Null
Put(b, map, k, e) ==
    [b EXCEPT !.maps[map] =
        IF e = Null THEN [o \in DOMAIN @ \ {k} |-> @[o]] ELSE (k :> e) @@ @]
rl_empty_keymap(b, map) == DOMAIN b.maps[map] \subseteq {ANY}

---------------------------------------------------------------------------
(* Variables *)

\* input-meta and meta-flag are one variable.
Cell(name) == IF name = "meta-flag" THEN "input-meta" ELSE name
\* A locale that is not C switches these three, _rl_set_localevars.
EightBit == {"input-meta", "output-meta"}
On(b) ==
    {"bind-tty-special-chars", "byte-oriented", "echo-control-characters",
     "enable-active-region", "enable-bracketed-paste", "enable-meta-key",
     "mark-directories", "match-hidden-files", "page-completions", "prefer-visible-bell"}
    \cup (IF b.local THEN EightBit ELSE {"convert-meta"})
Off(b) ==
    {"blink-matching-paren", "colored-completion-prefix", "colored-stats",
     "completion-ignore-case", "completion-map-case", "disable-completion",
     "enable-keypad", "expand-tilde", "history-preserve-point", "horizontal-scroll-mode",
     "mark-modified-lines", "mark-symlinked-directories", "menu-complete-display-prefix",
     "print-completions-horizontally", "revert-all-at-newline", "search-ignore-case",
     "show-all-if-ambiguous", "show-all-if-unmodified", "show-mode-in-prompt",
     "skip-completed-text", "visible-stats"}
    \cup (IF b.local THEN {"convert-meta"} ELSE EightBit)
Strings ==
    ("bell-style" :> "audible") @@ ("comment-begin" :> "#") @@ ("keyseq-timeout" :> "500")
    @@ ("completion-query-items" :> "100") @@ ("completion-display-width" :> "-1")
    @@ ("completion-prefix-display-length" :> "0") @@ ("history-size" :> "-1")
    @@ ("emacs-mode-string" :> "@") @@ ("vi-ins-mode-string" :> "(ins)")
    @@ ("vi-cmd-mode-string" :> "(cmd)")
Value(b, name) ==
    CASE name = "editing-mode" -> b.mode
      [] name = "keymap" -> b.keymap[1]
      [] name \in DOMAIN b.vars -> b.vars[name]
      [] name \in On(b) -> "on"
      [] name \in Off(b) -> "off"
      [] OTHER -> Strings[name]
---------------------------------------------------------------------------
(* Binding *)

\* Keys as the file writes them to keys as they are typed.
RECURSIVE rl_translate_keyseq(_, _)
rl_translate_keyseq(convert, keys) ==
    IF keys = <<>> THEN <<>>
    ELSE (IF Head(keys) \in DOMAIN Eighth /\ convert
          THEN <<"ESC", Eighth[Head(keys)]>> ELSE <<Head(keys)>>)
         \o rl_translate_keyseq(convert, Tail(keys))

\* An entry that becomes a keymap keeps what it was at ANY of the keymap.
\* Mutant: a keymap becomes one again, and its bindings are lost.
NewKeymap(b, map, k) ==
    LET old == Entry(b, map, k)
        sub == Append(map, k)
        shadow == IF old \in {Null, LowerCase} \/ old.type = "ISKMAP"
                  THEN rl_make_bare_keymap ELSE ANY :> old
    IN Put([b EXCEPT !.maps = (sub :> shadow) @@ @], map, k, Keymap(sub))
OpenedAnew(b, map, k) == NewKeymap(b, map, k)
Opened(b, map, k) == IF Entry(b, map, k).type = "ISKMAP" THEN b ELSE NewKeymap(b, map, k)
\* Binding a keymap's own key binds ANY; a keymap that is emptied is taken out
\* again, one level back.
RECURSIVE rl_generic_bind(_, _, _, _)
rl_generic_bind(b, e, keys, map) ==
    LET k == Head(keys)
        isMap == Entry(b, map, k).type = "ISKMAP"
        opened == Opened(b, map, k)
        sub == Entry(opened, map, k).to
        bound == rl_generic_bind(opened, e, Tail(keys), sub)
        over == Entry(bound, sub, ANY)
    IN CASE Len(keys) = 1 /\ isMap ->
              Put(b, sub, ANY, IF e = Null THEN Function("_rl_null_function") ELSE e)
         [] Len(keys) = 1 /\ ~isMap -> Put(b, map, k, e)
         [] OTHER -> IF /\ Len(keys) = 2
                        /\ e = Null
                        /\ over.type = "ISFUNC"
                        /\ rl_empty_keymap(bound, sub)
                     THEN Put(bound, map, k, over) ELSE bound

Converting(b) == Value(b, "convert-meta") = "on"

rl_bind_keyseq(b, e, keys, map) ==
    rl_generic_bind(b, e, rl_translate_keyseq(Converting(b), keys), map)
rl_macro_bind(b, body, keys, map) ==
    rl_bind_keyseq(b, Macro(rl_translate_keyseq(Converting(b), body)), keys, map)
rl_bind_key(b, e, k) ==
    LET escape == Entry(b, b.keymap, "ESC") IN
    IF k \in DOMAIN Eighth /\ Converting(b) /\ escape.type = "ISKMAP"
    THEN Put(b, escape.to, Eighth[k], e)
    ELSE IF \/ k \in DOMAIN Eighth /\ Converting(b)
            \/ Entry(b, b.keymap, k).type = "ISKMAP"
    THEN rl_bind_keyseq(b, e, <<k>>, b.keymap)
    ELSE Put(b, b.keymap, k, e)

RECURSIVE rl_function_of_keyseq_len(_, _, _)
rl_function_of_keyseq_len(b, keys, map) ==
    LET e == Entry(b, map, Head(keys)) IN
    IF Len(keys) = 1 THEN e
    ELSE IF e.type = "ISKMAP" THEN rl_function_of_keyseq_len(b, Tail(keys), e.to)
    ELSE Null
rl_bind_keyseq_if_unbound(b, e, keys, map) ==
    IF rl_function_of_keyseq_len(b, keys, map) \in {Null, LowerCase, Function("rl_vi_movement_mode")}
    THEN rl_bind_keyseq(b, e, keys, map) ELSE b

---------------------------------------------------------------------------
(* Setting a variable *)

\* What the string variables take for an empty and for a negative value.
EmptyValue ==
    ("keyseq-timeout" :> "0") @@ ("completion-query-items" :> "100")
    @@ ("completion-display-width" :> "-1") @@ ("completion-prefix-display-length" :> "0")
    @@ ("history-size" :> "500")
NegativeValue ==
    ("keyseq-timeout" :> "0") @@ ("completion-query-items" :> "0")
    @@ ("completion-display-width" :> "-1") @@ ("completion-prefix-display-length" :> "0")
    @@ ("history-size" :> "-1")
BellStyles ==
    ("" :> "audible") @@ ("none" :> "none") @@ ("off" :> "none") @@ ("audible" :> "audible")
    @@ ("on" :> "audible") @@ ("visible" :> "visible")
KeymapNames ==
    ("emacs" :> Emacs) @@ ("emacs-standard" :> Emacs) @@ ("emacs-meta" :> Meta)
    @@ ("emacs-ctlx" :> Ctlx) @@ ("vi" :> Movement) @@ ("vi-move" :> Movement)
    @@ ("vi-command" :> Movement) @@ ("vi-insert" :> Insertion)

bool_to_int(value) == IF value \in {"", "on", "1"} THEN "on" ELSE "off"
sv_editmode(b, value) ==
    CASE value = "vi" -> [b EXCEPT !.keymap = Insertion, !.mode = "vi"]
      [] value = "emacs" -> [b EXCEPT !.keymap = Emacs, !.mode = "emacs"]
      [] OTHER -> b
sv_keymap(b, value) ==
    IF value \in DOMAIN KeymapNames THEN [b EXCEPT !.keymap = KeymapNames[value]] ELSE b
Setting(name, value) ==
    CASE name \in DOMAIN EmptyValue ->
           (IF value = "" THEN EmptyValue[name]
            ELSE IF value = "-1" THEN NegativeValue[name] ELSE value)
      [] name = "bell-style" -> BellStyles[value]
      [] OTHER -> value
Refused(name, value) ==
    \/ name = "bell-style" /\ value \notin DOMAIN BellStyles
    \/ name = "comment-begin" /\ value = ""
hack_special_boolean_var(b, name, value) ==
    CASE name = "enable-bracketed-paste" -> ("enable-active-region" :> value) @@ b.vars
      [] name = "prefer-visible-bell" ->
           ("bell-style" :> IF value = "on" THEN "visible" ELSE "audible") @@ b.vars
      [] OTHER -> b.vars
rl_variable_bind(b, name, value) ==
    CASE name = "editing-mode" -> sv_editmode(b, value)
      [] name = "keymap" -> sv_keymap(b, value)
      [] name \in On(b) \cup Off(b) ->
           LET v == bool_to_int(value)
           IN [b EXCEPT !.vars = (name :> v) @@ hack_special_boolean_var(b, name, v)]
      [] name \in DOMAIN Strings /\ ~Refused(name, value) ->
           [b EXCEPT !.vars = (name :> Setting(name, value)) @@ @]
      [] OTHER -> b

---------------------------------------------------------------------------
(* The init file *)

Version == 83
Compares(op, n) ==
    CASE op = "==" -> Version = n
      [] op = "!=" -> Version # n
      [] op = "<" -> Version < n
      [] op = ">" -> Version > n
      [] op = "<=" -> Version <= n
      [] op = ">=" -> Version >= n
      [] OTHER -> FALSE
Holds(b, t) ==
    CASE t.on = "mode" -> t.is = b.mode
      [] t.on = "term" -> t.is \in TerminalNames
      [] t.on = "version" -> Compares(t.op, t.is)
      [] t.on = "application" -> t.is = "other"
      [] t.on = "variable" /\ t.op = "==" -> Value(b, Cell(t.name)) = t.is
      [] t.on = "variable" /\ t.op = "!=" -> Value(b, Cell(t.name)) # t.is
      [] OTHER -> FALSE

parser_if(b, t) ==
    [b EXCEPT !.ifs = Append(@, b.out), !.out = b.out \/ ~Holds(b, t)]
\* Mutant: an $else counts although an $if around it is not taken.
parser_elseInside(b) == IF b.ifs = <<>> THEN b ELSE [b EXCEPT !.out = ~@]
parser_else(b) ==
    IF b.ifs = <<>> \/ \E i \in 1..Len(b.ifs) : b.ifs[i] THEN b
    ELSE [b EXCEPT !.out = ~@]
parser_endif(b) ==
    IF b.ifs = <<>> THEN b
    ELSE [b EXCEPT !.out = b.ifs[Len(b.ifs)], !.ifs = SubSeq(@, 1, Len(@) - 1)]

\* A key by its name, in the old style: Meta- asks for the eighth bit.
KeyName(line) ==
    IF ~line.meta THEN line.key
    ELSE CHOOSE k \in DOMAIN Eighth : Eighth[k] = line.key
NamedKey(b, line) ==
    LET k == KeyName(line) IN
    CASE line.to.type = "ISMACR" -> rl_macro_bind(b, line.to.to, <<k>>, b.keymap)
      [] line.to = Function("prefix-meta") -> rl_bind_keyseq(b, Keymap(Meta), <<k>>, b.keymap)
      [] OTHER -> rl_bind_key(b, line.to, k)
\* A quoted sequence of keys, the new style.
KeySequence(b, line) ==
    IF line.to.type = "ISMACR" THEN rl_macro_bind(b, line.to.to, line.keys, b.keymap)
    ELSE rl_bind_keyseq(b, line.to, line.keys, b.keymap)

Directives == {"$if", "$else", "$endif", "$include"}
\* $include reads the file named before the line after it is read.
RECURSIVE _rl_read_init_file(_, _, _)
parser_include(b, disk, file) ==
    IF b.out \/ file \notin DOMAIN disk THEN b ELSE _rl_read_init_file(b, disk, disk[file])
handle_parser_directive(b, disk, line) ==
    CASE line.do = "$if" -> parser_if(b, line.test)
      [] line.do = "$else" -> parser_else(b)
      [] line.do = "$endif" -> parser_endif(b)
      [] line.do = "$include" -> parser_include(b, disk, line.file)
rl_parse_and_bind(b, disk, line) ==
    CASE line.do \in Directives -> handle_parser_directive(b, disk, line)
      [] b.out -> b
      [] line.do = "set" -> rl_variable_bind(b, Cell(line.name), line.value)
      [] line.do = "bind" -> KeySequence(b, line)
      [] line.do = "key" -> NamedKey(b, line)
      [] OTHER -> b
_rl_read_init_file(b, disk, lines) ==
    IF lines = <<>> THEN b
    ELSE _rl_read_init_file(rl_parse_and_bind(b, disk, Head(lines)), disk, Tail(lines))

rl_set_keymap_from_edit_mode(b) ==
    [b EXCEPT !.keymap = IF b.mode = "emacs" THEN Emacs ELSE Insertion]

\* The file read before, the one INPUTRC names, or one of the two defaults.
rl_read_init_file(b, disk, inputrc) ==
    LET name == IF b.last # NoFile THEN b.last
                ELSE IF inputrc # NoFile THEN inputrc
                ELSE IF "~/.inputrc" \in DOMAIN disk THEN "~/.inputrc" ELSE "/etc/inputrc"
    IN IF name \notin DOMAIN disk THEN b
       ELSE _rl_read_init_file([b EXCEPT !.last = name], disk, disk[name])
rl_re_read_init_file(b, disk, inputrc) ==
    rl_set_keymap_from_edit_mode(rl_read_init_file(b, disk, inputrc))

---------------------------------------------------------------------------
(* The keymaps to begin with, for the keys of the model *)

Table(functions) ==
    LET keys == UNION {functions[f] : f \in DOMAIN functions}
    IN [k \in keys |-> Function(CHOOSE f \in DOMAIN functions : k \in functions[f])]
Printing == Table([rl_insert |-> Printable])
emacs_standard_keymap ==
    ("ESC" :> Keymap(Meta)) @@ ("C-x" :> Keymap(Ctlx)) @@ Printing
    @@ Table([rl_abort |-> {"C-g"}, rl_quoted_insert |-> {"C-v"}, rl_newline |-> {"RET"},
             rl_unix_word_rubout |-> {"C-w"}])
emacs_meta_keymap ==
    Table([rl_abort |-> {"C-g"}, rl_digit_argument |-> {"2"}, rl_backward_word |-> {"b"},
           rl_do_lowercase_version |-> DOMAIN Lower])
emacs_ctlx_keymap ==
    Table([rl_abort |-> {"C-g"}, rl_re_read_init_file |-> {"C-r"}, rl_start_kbd_macro |-> {"("},
           rl_end_kbd_macro |-> {")"}, rl_call_last_kbd_macro |-> {"e"}])
vi_movement_keymap ==
    Table([rl_abort |-> {"C-g"}, rl_vi_append_mode |-> {"a"}, rl_vi_prev_word |-> {"b"},
           rl_vi_append_eol |-> {"A"}, rl_vi_end_word |-> {"e"}, rl_vi_arg_digit |-> {"2"},
           rl_quoted_insert |-> {"C-v"}, rl_newline |-> {"RET"},
           rl_vi_unix_word_rubout |-> {"C-w"}])
vi_insertion_keymap ==
    Table([rl_vi_movement_mode |-> {"ESC"}, rl_quoted_insert |-> {"C-v"}, rl_newline |-> {"RET"},
           rl_vi_unix_word_rubout |-> {"C-w"}])
    @@ Printing

ArrowKeys ==
    <<[keys |-> <<"ESC", "[", "A">>, to |-> Function("rl_get_previous_history")],
      [keys |-> <<"ESC", "[", "B">>, to |-> Function("rl_get_next_history")]>>
PastePrefix == [keys |-> <<"ESC", "[", "2">>, to |-> Function("rl_bracketed_paste_begin")]
RECURSIVE bind_arrow_keys_internal(_, _, _)
bind_arrow_keys_internal(b, arrows, map) ==
    IF arrows = <<>> THEN b
    ELSE bind_arrow_keys_internal(
           rl_bind_keyseq_if_unbound(b, Head(arrows).to, Head(arrows).keys, map), Tail(arrows), map)
bind_arrow_keys(b) ==
    LET emacs == bind_arrow_keys_internal(b, ArrowKeys, Emacs)
        movement == bind_arrow_keys_internal(emacs, ArrowKeys, Movement)
        escape == IF Entry(movement, Movement, "ESC").type = "ISKMAP"
                  THEN rl_generic_bind(movement, Null, <<"ESC">>, Movement) ELSE movement
    IN bind_arrow_keys_internal(escape, ArrowKeys, Insertion)
bind_bracketed_paste_prefix(b) ==
    bind_arrow_keys_internal(bind_arrow_keys_internal(b, <<PastePrefix>>, Emacs), <<PastePrefix>>, Insertion)

(* The terminal's special characters are bound to what they are to the      *)
(* terminal, unless they begin sequences or are macros: before the file is  *)
(* read, and again as each line begins.                                     *)
SpecialUse(mode, what) ==
    CASE what = "VERASE" -> Function("rl_rubout")
      [] what = "VKILL" -> Function("rl_unix_line_discard")
      [] what = "VLNEXT" -> Function("rl_quoted_insert")
      [] what = "VWERASE" ->
           Function(IF mode = "vi" THEN "rl_vi_unix_word_rubout" ELSE "rl_unix_word_rubout")
set_special_char(b, map) == {k \in DOMAIN Special : Entry(b, map, k).type = "ISFUNC"}
_rl_bind_tty_special_chars(b, map) ==
    [b EXCEPT !.maps[map] =
        [k \in set_special_char(b, map) |-> SpecialUse(b.mode, Special[k])] @@ @]
rl_tty_unset_default_bindings(b, map) ==
    [b EXCEPT !.maps[map] = [k \in set_special_char(b, map) |-> Function("rl_insert")] @@ @]
BindsSpecial(b) == Value(b, "bind-tty-special-chars") = "on"
readline_default_bindings(b) ==
    IF BindsSpecial(b) THEN _rl_bind_tty_special_chars(b, b.keymap) ELSE b
rl_prep_terminal(b, saved) ==
    LET map == IF b.mode = "vi" THEN Insertion ELSE b.keymap
        unset == IF saved THEN rl_tty_unset_default_bindings(b, map) ELSE b
    IN IF BindsSpecial(b) THEN _rl_bind_tty_special_chars(unset, map) ELSE b

NewBindings(local) ==
    [maps |-> (Emacs :> emacs_standard_keymap) @@ (Meta :> emacs_meta_keymap)
              @@ (Ctlx :> emacs_ctlx_keymap) @@ (Movement :> vi_movement_keymap)
              @@ (Insertion :> vi_insertion_keymap),
     keymap |-> Emacs, mode |-> "emacs", vars |-> [v \in {} |-> ""],
     out |-> FALSE, ifs |-> <<>>, last |-> NoFile, local |-> local]
readline_initialize_everything(disk, inputrc, local) ==
    LET first == readline_default_bindings(NewBindings(local))
    IN bind_bracketed_paste_prefix(bind_arrow_keys(rl_re_read_init_file(first, disk, inputrc)))
====
