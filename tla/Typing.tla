---- MODULE Typing ----
(***************************************************************************)
(* What init files and typing mean, apart from how readline does it: each  *)
(* line outside the branches not taken binds its keys, the last one wins,  *)
(* and of what is typed the longest sequence bound runs.  A record d holds *)
(*   bound         each editing map to the sequences bound in it           *)
(*   prefixes      the keys bound to prefix-meta                           *)
(*   keymap mode vars local      as in KeyBindings                         *)
(***************************************************************************)
EXTENDS KeyDispatch, FiniteSetsExt, SequencesExt

StrictPrefix(p, q) == Len(p) < Len(q) /\ SubSeq(q, 1, Len(p)) = p
Longer(table, keys) == \E t \in DOMAIN table : StrictPrefix(keys, t)
After(keys, n) == SubSeq(keys, n + 1, Len(keys))

---------------------------------------------------------------------------
(* Init files *)

Root(map) == IF map \in {Meta, Ctlx} THEN Emacs ELSE map
Lead(map) == CASE map = Meta -> <<"ESC">> [] map = Ctlx -> <<"C-x">> [] OTHER -> <<>>

\* A sequence taken away from longer ones is left doing nothing.
BindKeys(d, root, keys, e) ==
    LET table == d.bound[root] IN
    [d EXCEPT !.bound[root] =
        IF e = Null /\ ~Longer(table, keys) THEN [t \in DOMAIN table \ {keys} |-> table[t]]
        ELSE (keys :> IF e = Null THEN Function("_rl_null_function") ELSE e) @@ table]
BindHere(d, keys, e) ==
    BindKeys(d, Root(d.keymap), Lead(d.keymap) \o rl_translate_keyseq(Converting(d), keys), e)
BindLine(d, line) ==
    LET keys == IF line.do = "bind" THEN line.keys ELSE <<KeyName(line)>>
        to == IF line.to.type = "ISMACR"
              THEN Macro(rl_translate_keyseq(Converting(d), line.to.to)) ELSE line.to
    IN IF line.to = Function("prefix-meta") THEN [d EXCEPT !.prefixes = @ \cup {line.key}]
       ELSE BindHere(d, keys, to)

\* The lines of an $if: how deep each is, its $else and its $endif.
Depth(lines, n) ==
    Cardinality({i \in 1..n : lines[i].do = "$if"}) - Cardinality({i \in 1..n : lines[i].do = "$endif"})
Endif(lines) == Min({i \in 1..Len(lines) : Depth(lines, i) = 0})
Elses(lines) == {i \in 1..Endif(lines) : lines[i].do = "$else" /\ Depth(lines, i) = 1}
Middle(lines) == IF Elses(lines) = {} THEN Endif(lines) ELSE Min(Elses(lines))

RECURSIVE Meaning(_, _, _)
Meaning(d, disk, lines) ==
    IF lines = <<>> THEN d
    ELSE LET line == Head(lines) IN
         CASE line.do = "$if" ->
                (LET n == Middle(lines)
                     branch == IF Holds(d, line.test) THEN SubSeq(lines, 2, n - 1)
                               ELSE SubSeq(lines, n + 1, Endif(lines) - 1)
                 IN Meaning(Meaning(d, disk, branch), disk, After(lines, Endif(lines))))
           [] line.do = "$include" ->
                (LET included == IF line.file \in DOMAIN disk THEN disk[line.file] ELSE <<>>
                 IN Meaning(Meaning(d, disk, included), disk, Tail(lines)))
           [] line.do = "set" ->
                Meaning(rl_variable_bind(d, Cell(line.name), line.value), disk, Tail(lines))
           [] line.do \in {"bind", "key"} -> Meaning(BindLine(d, line), disk, Tail(lines))
           [] OTHER -> Meaning(d, disk, Tail(lines))

InitFile(h, disk) ==
    IF h.inputrc # NoFile THEN h.inputrc
    ELSE IF "~/.inputrc" \in DOMAIN disk THEN "~/.inputrc" ELSE "/etc/inputrc"
Read(d, h, disk) ==
    LET f == InitFile(h, disk) IN
    rl_set_keymap_from_edit_mode(Meaning(d, disk, IF f \in DOMAIN disk THEN disk[f] ELSE <<>>))

Sequences(lead, table) ==
    LET keys == {k \in DOMAIN table : table[k].type # "ISKMAP"}
    IN [t \in {Append(lead, k) : k \in keys} |-> table[t[Len(t)]]]
IfFree(d, root, arrow) ==
    LET table == d.bound[root]
        free == arrow.keys \notin DOMAIN table
                \/ table[arrow.keys] \in {LowerCase, Function("rl_vi_movement_mode")}
    IN IF free /\ ~Longer(table, arrow.keys) THEN BindKeys(d, root, arrow.keys, arrow.to) ELSE d
Arrows(d, root) == IfFree(IfFree(d, root, ArrowKeys[1]), root, ArrowKeys[2])
\* A line begins with the terminal's special characters as the terminal has
\* them; what begins sequences and what is a macro stays.
Line(d) ==
    LET root == IF d.mode = "vi" THEN Insertion ELSE Emacs
        table == d.bound[root]
        free == {t \in {<<k>> : k \in DOMAIN Special} :
                    ~Longer(table, t) /\ (t \in DOMAIN table => table[t].type = "ISFUNC")}
    IN IF Value(d, "bind-tty-special-chars") = "off" THEN d
       ELSE [d EXCEPT !.bound[root] = [t \in free |-> SpecialUse(d.mode, Special[t[1]])] @@ @]
Start(h) ==
    LET new == [bound |-> (Emacs :> (Sequences(<<>>, emacs_standard_keymap)
                                      @@ Sequences(<<"ESC">>, emacs_meta_keymap)
                                      @@ Sequences(<<"C-x">>, emacs_ctlx_keymap)))
                          @@ (Movement :> Sequences(<<>>, vi_movement_keymap))
                          @@ (Insertion :> Sequences(<<>>, vi_insertion_keymap)),
                prefixes |-> {}, keymap |-> Emacs, mode |-> "emacs",
                vars |-> [v \in {} |-> ""], local |-> h.local]
        read == Read(new, h, Disk(h, FALSE))
        emacs == IfFree(Arrows(read, Emacs), Emacs, PastePrefix)
        movement == BindKeys(Arrows(emacs, Movement), Movement, <<"ESC">>, Null)
    IN Line(IfFree(Arrows(movement, Insertion), Insertion, PastePrefix))
Started == [h \in Homes |-> Start(h)]

---------------------------------------------------------------------------
(* Typing.  w has the meaning d of the files, the keys not yet run, how many *)
(* of them come from macros, and how many macros ran since the last key.   *)

\* How far keys go along the sequences bound, from the i-th with path before
\* it: the longest one that is bound (best, 0 for none) and where it shows.
RECURSIVE Along(_, _, _, _, _)
Along(w, table, i, path, best) ==
    LET k == w.keys[i]
        here == IF path = <<>> /\ k \in w.d.prefixes /\ w.d.keymap = Emacs THEN <<"ESC">>
                ELSE IF k \in DOMAIN Eighth /\ Converting(w.d) THEN path \o <<"ESC", Eighth[k]>>
                ELSE Append(path, k)
        longest == IF here \in DOMAIN table THEN [n |-> i, keys |-> here] ELSE best
        waits == \/ path \in DOMAIN table /\ i - 1 > w.macro /\ Value(w.d, "keyseq-timeout") # "0"
                 \/ path = <<"ESC">> /\ w.d.keymap = Insertion
    IN CASE i > Len(w.keys) -> [best |-> best, stop |-> i - 1]
         [] i <= Len(w.keys) /\ k = PAUSE ->
              (IF waits THEN [best |-> best, stop |-> i] ELSE Along(w, table, i + 1, path, best))
         [] OTHER -> IF Longer(table, here) THEN Along(w, table, i + 1, here, longest)
                     ELSE [best |-> longest, stop |-> i]

Without(keys) == SelectSeq(keys, LAMBDA k : k # PAUSE)
Plain(w) == [w EXCEPT !.number = 1, !.counting = FALSE]
Note(w, f, k) == [Plain(w) EXCEPT !.ran = Append(@, <<f, k, w.number>>)]
\* An abort drops the keys given and what macros still have.
Aborted(w, n) ==
    [Plain(w) EXCEPT !.keys = After(@, IF n > w.macro THEN n ELSE w.macro), !.macro = 0, !.nested = 0,
                     !.ran = Append(@, <<"rl_abort", NoKey, 0>>)]
Used(w, n, stop) ==
    [w EXCEPT !.keys = Without(SubSeq(@, n + 1, stop)) \o After(@, stop),
              !.macro = IF @ > n THEN @ - n ELSE 0,
              !.nested = IF w.macro = 0 THEN 0 ELSE @]

RECURSIVE Counted(_)
Counted(w) ==
    IF w.keys # <<>> /\ Head(w.keys) = PAUSE THEN Counted([w EXCEPT !.keys = Tail(@)])
    ELSE IF w.keys # <<>> /\ Head(w.keys) \in DOMAIN Digit
    THEN Counted([Used(w, 1, 1) EXCEPT !.number = @ * 10 + Digit[Head(w.keys)]])
    ELSE w

Does(w, h, f, k) ==
    LET at(map) == [Note(w, f, NoKey) EXCEPT !.d.keymap = map]
        ended == [Note(w, f, NoKey) EXCEPT !.d = Line(@)]
    IN
    CASE f = "rl_abort" -> Aborted(w, 0)
      [] f = "rl_insert" -> Note(w, f, k)
      [] f \in {"rl_digit_argument", "rl_vi_arg_digit"} ->
           Counted([w EXCEPT !.counting = TRUE,
                             !.number = (IF w.counting THEN w.number * 10 ELSE 0) + Digit[k]])
      [] f = "rl_quoted_insert" ->
           (LET n == IF Head(w.keys) = PAUSE THEN 2 ELSE 1
            IN Used(Note(w, f, w.keys[n]), n, n))
      [] f = "rl_re_read_init_file" ->
           [Note(w, f, NoKey) EXCEPT !.d = Read(w.d, h, Disk(h, w.edited))]
      [] f = "rl_vi_movement_mode" -> at(Movement)
      [] f \in {"rl_vi_append_mode", "rl_vi_append_eol"} -> at(Insertion)
      [] f = "rl_newline" ->
           (IF w.d.mode = "vi" THEN [ended EXCEPT !.d.keymap = Insertion] ELSE ended)
      [] OTHER -> Note(w, f, NoKey)

RECURSIVE Typed(_, _)
Typed(w, h) ==
    LET table == w.d.bound[w.d.keymap]
        along == Along(w, table, 1, <<>>, [n |-> 0, keys |-> <<>>])
        n == along.best.n
        keys == along.best.keys
        e == table[keys]
        lower == table[[keys EXCEPT ![Len(keys)] = Lower[@]]]
        used == Used(w, n, along.stop)
        k == keys[Len(keys)]
    IN IF w.keys = <<>> THEN w
       ELSE IF Head(w.keys) = PAUSE THEN Typed([w EXCEPT !.keys = Tail(@)], h)
       ELSE IF n = 0 THEN Typed(Aborted(w, along.stop), h)
       ELSE IF e = LowerCase
       THEN Typed([used EXCEPT !.keys = SubSeq(keys, 1, Len(keys) - 1) \o <<Lower[k]>> \o @], h)
       ELSE IF e.type = "ISMACR" /\ used.nested > MAX_MACRO_LEVEL THEN Typed(Aborted(used, 0), h)
       ELSE IF e.type = "ISMACR"
       THEN Typed([Plain(used) EXCEPT !.keys = e.to \o @, !.macro = @ + Len(e.to),
                                      !.nested = @ + 1], h)
       ELSE Typed(Does(used, h, e.to[1], k), h)

\* All that is typed, the init file being edited in between.
Meant(h, phrases) ==
    LET edits == {i \in 1..Len(phrases) : phrases[i] = <<"EDIT">>}
        at == IF edits = {} THEN Len(phrases) + 1 ELSE Min(edits)
        fresh == [d |-> Started[h], keys |-> FlattenSeq(SubSeq(phrases, 1, at - 1)), macro |-> 0,
                  nested |-> 0, number |-> 1, counting |-> FALSE, ran |-> <<>>, edited |-> FALSE]
        before == Typed(fresh, h)
    IN Typed([before EXCEPT !.edited = TRUE, !.keys = FlattenSeq(SubSeq(phrases, at + 1, Len(phrases)))], h)

\* The commands that keyboard macros are made of are not of this meaning.
Recorders == {"rl_start_kbd_macro", "rl_end_kbd_macro", "rl_call_last_kbd_macro"}

---------------------------------------------------------------------------
(* Once everything typed has been read, the commands that ran, with their  *)
(* arguments, are those the init file and the keys mean: bindings that     *)
(* shadow others, keymaps made and emptied while binding, the branches of  *)
(* $if, timeouts, keys given back and nested macros lose and add nothing   *)
(* (rl_generic_bind, parser_if/else/endif, _rl_dispatch_subseq,            *)
(* _rl_subseq_result, rl_read_key).                                        *)
LongestBindingRuns ==
    Settled /\ (\A i \in 1..Len(rl.ran) : rl.ran[i][1] \notin Recorders)
        => rl.ran = Meant(home, typed).ran

(* Keys do not keep readline busy for ever: after the last one is typed,   *)
(* it comes to wait for another, however macros call each other            *)
(* (_rl_with_macro_input, _rl_next_macro_key), unless a macro has given    *)
(* back another key than it was asked for: a key that an inner macro, now  *)
(* at its end, brought is asked of the outer one, which then reads once    *)
(* more the key that called it (_rl_prev_macro_key).                       *)
KeysAreRead == []<>(Turn.r = "more") \/ <>rl.astray
====
