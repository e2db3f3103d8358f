---- MODULE KeyDispatch ----
(***************************************************************************)
(* From the keys typed to the commands run: readline_internal_charloop and *)
(* _rl_dispatch of src/lib/readline/readline.c, the input queue of         *)
(* input.c, keyboard macros (macro.c), numeric arguments (misc.c) and the  *)
(* typeahead of rl_insert (text.c).  Commands that only change the line    *)
(* are noted as run.  The record rl holds                                  *)
(*   keys      the bindings, a record of KeyBindings                       *)
(*   tty       keys typed and not yet read; a PAUSE is longer than         *)
(*             keyseq-timeout                                              *)
(*   pushed pending    the input buffer, rl_pending_input (NoKey for 0)    *)
(*   macros    the macros read from, the innermost last, each with the     *)
(*             keys that are left and those that were read                 *)
(*   current   current_macro up to current_macro_index, defined: is it     *)
(*             more than NULL?  defining: RL_STATE_MACRODEF                *)
(*   explicit sign number    the argument                                  *)
(*   length    rl_key_sequence_length                                      *)
(*   map       _rl_dispatching_keymap                                      *)
(*   astray    has a macro given back another key than it was asked for?   *)
(*   ran       the commands run, with their argument, and the character of *)
(*             those that insert one                                       *)
(*   r         what dispatching returned; "abort" for the longjmp of an    *)
(*             abort, "more" if it would wait for a key                    *)
(* The user types phrases, and may edit the init files once.               *)
(***************************************************************************)
EXTENDS KeyBindings

CONSTANTS Homes,             \* init files, what users type, and how much
          MaxRan             \* bound on the commands run
ASSUME HomeAssumption ==
    /\ \A h \in Homes : h.phrases # {} /\ h.max \in Nat
    /\ MaxRan \in Nat

MAX_MACRO_LEVEL == 16
PAUSE == "PAUSE"
NoKey == ""
NUL == "C-@"                 \* what ANYOTHERKEY is as a character

VARIABLES home,              \* the user: one of Homes
          edited,            \* has the init file been edited?
          typed,             \* all that was typed
          rl
vars == <<home, edited, typed, rl>>

Disk(h, e) ==
    [f \in DOMAIN h.files |->
        IF e /\ Len(h.files[f]) > 1 THEN h.files[f][2] ELSE h.files[f][1]]

---------------------------------------------------------------------------
(* Macros and aborting *)

_rl_reset_argument(s) == [s EXCEPT !.explicit = FALSE, !.sign = 1, !.number = 1]
_rl_push_executing_macro(s, string) ==
    [s EXCEPT !.macros = Append(@, [left |-> string, read |-> <<>>])]
_rl_pop_executing_macro(s) == [s EXCEPT !.macros = SubSeq(@, 1, Len(@) - 1)]
_rl_kill_kbd_macro(s) ==
    [s EXCEPT !.macros = <<>>, !.current = <<>>, !.defined = FALSE, !.defining = FALSE]
_rl_abort_internal(s) ==
    [_rl_kill_kbd_macro(_rl_reset_argument(s)) EXCEPT
        !.pending = NoKey, !.ran = Append(@, <<"rl_abort", NoKey, 0>>), !.r = "abort"]

_rl_add_macro_char(s, k) ==
    IF s.defining
    THEN [s EXCEPT !.current = Append(@, IF k = ANY THEN NUL ELSE k), !.defined = TRUE]
    ELSE s

\* A string ends at its first NUL.
RECURSIVE savestring(_)
savestring(keys) ==
    IF keys = <<>> \/ Head(keys) = NUL THEN <<>> ELSE <<Head(keys)>> \o savestring(Tail(keys))

\* Mutant: macros may call one another for ever.
TooDeepNever(s) == FALSE
TooDeep(s) == Len(s.macros) > MAX_MACRO_LEVEL
\* The last of n macros is read first.
RECURSIVE _rl_with_macro_input(_, _, _)
_rl_with_macro_input(s, string, n) ==
    IF n = 0 THEN s
    ELSE IF TooDeep(s) THEN _rl_abort_internal(s)
    ELSE _rl_with_macro_input(_rl_push_executing_macro(s, string), string, n - 1)

rl_start_kbd_macro(s) ==
    IF s.defining THEN _rl_abort_internal(s)
    ELSE LET again == IF s.explicit /\ s.defined
                      THEN _rl_with_macro_input(s, savestring(s.current), 1) ELSE s
         IN IF again.r = "abort" THEN again
            ELSE [again EXCEPT !.defining = TRUE,
                               !.current = IF s.explicit THEN @ ELSE <<>>]
rl_call_last_kbd_macro(s, count) ==
    IF ~s.defined THEN _rl_abort_internal(s)
    ELSE IF s.defining THEN [s EXCEPT !.current = SubSeq(@, 1, Len(@) - 1)]
    ELSE _rl_with_macro_input(s, savestring(s.current),
                              IF count < 0 THEN MAX_MACRO_LEVEL + 2 ELSE count)
rl_end_kbd_macro(s, count) ==
    IF ~s.defining THEN _rl_abort_internal(s)
    ELSE LET kept == IF s.length > Len(s.current) THEN 0 ELSE Len(s.current) - s.length
         IN rl_call_last_kbd_macro(
              [s EXCEPT !.current = SubSeq(@, 1, kept), !.defining = FALSE], count - 1)

---------------------------------------------------------------------------
(* Reading keys *)

RECURSIVE _rl_next_macro_key(_)
_rl_next_macro_key(s) ==
    IF s.macros = <<>> THEN s
    ELSE LET n == Len(s.macros)
             m == s.macros[n]
         IN IF m.left = <<>> THEN _rl_next_macro_key(_rl_pop_executing_macro(s))
            ELSE [s EXCEPT !.macros[n] = [left |-> Tail(m.left), read |-> Append(m.read, Head(m.left))],
                           !.key = Head(m.left)]
Arrived(s) == IF s.tty # <<>> /\ Head(s.tty) = PAUSE THEN Tail(s.tty) ELSE s.tty
\* The key is left in key.
rl_read_key(s) ==
    IF s.pending # NoKey THEN [s EXCEPT !.key = s.pending, !.pending = NoKey]
    ELSE LET m == _rl_next_macro_key([s EXCEPT !.key = NoKey]) IN
         CASE m.key # NoKey -> m
           [] m.key = NoKey /\ s.pushed # <<>> ->
                [m EXCEPT !.key = Head(s.pushed), !.pushed = Tail(@)]
           [] m.key = NoKey /\ s.pushed = <<>> /\ Arrived(s) # <<>> ->
                [m EXCEPT !.key = Head(Arrived(s)), !.tty = Tail(Arrived(s))]
           [] OTHER -> [m EXCEPT !.r = "more"]

\* A key is given back to where the next one would come from.
Shorter(s) == [s EXCEPT !.length = IF @ > 0 THEN @ - 1 ELSE 0]
_rl_prev_macro_key(s) ==
    LET n == Len(s.macros)
        m == s.macros[n]
        last == m.read[Len(m.read)]
    IN IF m.read = <<>> THEN s
       ELSE [s EXCEPT !.macros[n] = [left |-> <<last>> \o m.left,
                                     read |-> SubSeq(m.read, 1, Len(m.read) - 1)]]
\* It is taken to be the last one that the innermost macro read.
LastRead(s, k) ==
    LET read == s.macros[Len(s.macros)].read IN read # <<>> /\ read[Len(read)] = k
Unread(s, k, r) ==
    LET given == IF s.macros # <<>>
                 THEN [_rl_prev_macro_key(s) EXCEPT !.astray = @ \/ ~LastRead(s, k)]
                 ELSE [s EXCEPT !.pushed = <<k>> \o @]
    IN [Shorter(given) EXCEPT !.r = r]

\* Is the macro read from at its last key?
Ended(s) == Len(s.macros) = 1 /\ s.macros[1].left = <<>>
\* Whether nothing is typed for a time; "more" if that is still to be seen.
Quiet(s) ==
    IF s.pending # NoKey \/ s.pushed # <<>> THEN "no"
    ELSE IF s.tty = <<>> THEN "more"
    ELSE IF Head(s.tty) = PAUSE THEN "yes" ELSE "no"

---------------------------------------------------------------------------
(* Commands *)

Ran(s, f, k) ==
    [s EXCEPT !.ran = Append(@, <<f, IF f = "rl_insert" THEN k ELSE NoKey, s.sign * s.number>>)]

\* Keys typed ahead that insert themselves are inserted at once; the first
\* other one is the next command's.
RECURSIVE Typeahead(_)
Typeahead(s) ==
    IF s.macros # <<>> \/ s.pushed # <<>> \/ s.tty = <<>> \/ Head(s.tty) = PAUSE THEN s
    ELSE LET next == rl_read_key(s) IN
         IF Entry(s.keys, s.keys.keymap, next.key) = Function("rl_insert")
         THEN Typeahead([next EXCEPT !.ran = Append(@, <<"rl_insert", next.key, 1>>)])
         ELSE [_rl_reset_argument(next) EXCEPT !.length = 0, !.pending = next.key]
rl_quoted_insert(s) ==
    LET next == rl_read_key(s) IN
    IF next.r = "more" THEN next
    ELSE [_rl_add_macro_char(next, next.key) EXCEPT
             !.ran = Append(@, <<"rl_quoted_insert", next.key, s.sign * s.number>>)]
SetKeymap(s, map) == [s EXCEPT !.keys.keymap = map]
rl_newline(s) ==
    LET started == [s EXCEPT !.keys = rl_prep_terminal([@ EXCEPT !.out = FALSE], TRUE)] IN
    IF s.keys.mode = "vi" THEN SetKeymap(started, Insertion) ELSE started

\* Dispatching a key in a map.  got: does a shorter sequence run something?
RECURSIVE _rl_dispatch_subseq(_, _, _, _)
_rl_dispatch(s, k, map) == _rl_dispatch_subseq([s EXCEPT !.map = map], k, map, FALSE)

Digit == [k \in {"2", "3"} |-> IF k = "2" THEN 2 ELSE 3]
RECURSIVE rl_digit_loop(_)
rl_digit_loop(s) ==
    LET next == rl_read_key(s)
        k == IF next.key \in DOMAIN Eighth THEN Eighth[next.key] ELSE next.key
        map == next.keys.keymap
    IN CASE next.r = "more" -> next
         [] next.r # "more" /\ k \in DOMAIN Digit ->
              rl_digit_loop([next EXCEPT
                !.length = @ + 1, !.explicit = TRUE,
                !.number = IF s.explicit THEN @ * 10 + Digit[k] ELSE Digit[k]])
         [] OTHER -> _rl_dispatch(next, next.key, map)
rl_digit_argument(s, k) == rl_digit_loop(Shorter([s EXCEPT !.pending = k]))

Execute(s, f, k, disk) ==
    LET done == Ran(s, f, k) IN
    CASE f = "rl_abort" -> _rl_abort_internal(s)
      [] f = "rl_insert" -> Typeahead(done)
      [] f = "rl_quoted_insert" -> rl_quoted_insert(s)
      [] f \in {"rl_digit_argument", "rl_vi_arg_digit"} -> rl_digit_argument(s, k)
      [] f = "rl_start_kbd_macro" -> rl_start_kbd_macro(done)
      [] f = "rl_end_kbd_macro" -> rl_end_kbd_macro(done, s.sign * s.number)
      [] f = "rl_call_last_kbd_macro" -> rl_call_last_kbd_macro(done, s.sign * s.number)
      [] f = "rl_re_read_init_file" ->
           [done EXCEPT !.keys = rl_re_read_init_file(s.keys, disk, home.inputrc)]
      [] f = "rl_vi_movement_mode" -> SetKeymap(done, Movement)
      [] f \in {"rl_vi_append_mode", "rl_vi_append_eol"} -> SetKeymap(done, Insertion)
      [] f = "rl_newline" -> rl_newline(done)
      [] OTHER -> done

---------------------------------------------------------------------------
(* Dispatching *)

\* What the deeper keys came to: a command that their beginning shadows runs
\* with the key it was bound to, through the keymap's entry for that key.
_rl_subseq_result(s, map, k, got) ==
    LET m == s.map
        over == Entry(s.keys, m, ANY)
        old == Entry(s.keys, m, k)
        lent == [s EXCEPT !.keys = Put(@, m, k, over), !.map = map, !.r = "done"]
        run == _rl_dispatch_subseq(lent, k, m, FALSE)
    IN CASE s.r = "shadowed" /\ over = LowerCase ->
              (IF k \in DOMAIN Lower THEN _rl_dispatch([s EXCEPT !.r = "done"], Lower[k], map)
               ELSE [s EXCEPT !.r = "done"])
         [] s.r = "shadowed" /\ over.type = "ISFUNC" /\ over # LowerCase ->
              (IF run.r = "abort" THEN run ELSE [run EXCEPT !.keys = Put(@, m, k, old)])
         [] s.r = "shadowed" /\ over.type # "ISFUNC" -> _rl_dispatch([s EXCEPT !.r = "done"], ANY, m)
         [] s.r = "unbound" /\ Entry(s.keys, map, ANY) # Null ->
              [Unread(s, k, "shadowed") EXCEPT !.map = map]
         [] s.r = "unbound" /\ Entry(s.keys, map, ANY) = Null /\ got ->
              [Unread(s, k, "unbound") EXCEPT !.map = map]
         [] OTHER -> s

\* A key that begins longer sequences.  In vi's insertion map ESC alone ends
\* the insertion if nothing follows it, also as the last key of a macro.
Prefix(s, map, k, got) ==
    LET sub == Entry(s.keys, map, k).to
        longer == [s EXCEPT !.length = @ + 1, !.map = sub]
        patient == Value(s.keys, "keyseq-timeout") # "0"
        escape == /\ s.keys.mode = "vi" /\ k = "ESC" /\ map = Insertion
                  /\ s.macros = <<>> \/ Ended(s)
        timed == patient /\ s.macros = <<>> /\ Entry(s.keys, sub, ANY) # Null
        quiet == Quiet(s)
        next == rl_read_key(longer)
    IN CASE escape /\ (quiet = "yes" \/ (quiet = "more" /\ ~patient)) -> _rl_dispatch(s, ANY, sub)
         [] (escape \/ timed) /\ patient /\ quiet = "more" -> [s EXCEPT !.r = "more"]
         [] timed /\ ~escape /\ quiet = "yes" ->
              _rl_subseq_result([Shorter(longer) EXCEPT !.r = "shadowed"], map, k, got)
         [] next.r = "more" -> next
         [] OTHER -> _rl_subseq_result(
                       _rl_dispatch_subseq(next, next.key, sub, got \/ Entry(s.keys, map, ANY) # Null),
                       map, k, got)

RunFunction(s, map, k, got) ==
    LET e == Entry(s.keys, map, k)
        alone == [s EXCEPT !.length = @ + 1]
    IN CASE e = LowerCase /\ k \in DOMAIN Lower -> _rl_dispatch(s, Lower[k], map)
         [] e = LowerCase /\ k \notin DOMAIN Lower -> s
         [] e # Null /\ e # LowerCase -> Execute(alone, e.to[1], k, Disk(home, edited))
         [] e = Null /\ Entry(s.keys, map, ANY) # Null -> Unread(s, k, "shadowed")
         [] e = Null /\ Entry(s.keys, map, ANY) = Null /\ got -> Unread(s, k, "unbound")
         [] OTHER -> _rl_abort_internal(s)

_rl_dispatch_subseq(s0, k, map, got) ==
    LET escape == Entry(s0.keys, map, "ESC")
        high == k \in DOMAIN Eighth /\ Converting(s0.keys)
        s == _rl_add_macro_char(s0, IF high THEN "ESC" ELSE k)
        e == Entry(s.keys, map, k)
    IN CASE high /\ escape.type = "ISKMAP" ->
              _rl_dispatch([s EXCEPT !.length = @ + 1], Eighth[k], escape.to)
         [] high /\ escape.type # "ISKMAP" -> s0
         [] ~high /\ e.type = "ISFUNC" -> RunFunction(s, map, k, got)
         [] ~high /\ e.type = "ISKMAP" -> Prefix(s, map, k, got)
         [] OTHER -> _rl_with_macro_input(s, e.to, 1)

\* One turn of the loop that reads and runs commands.
Turn ==
    LET fresh == [(IF rl.pending = NoKey
                   THEN [_rl_reset_argument(rl) EXCEPT !.length = 0] ELSE rl) EXCEPT !.r = "done"]
        next == rl_read_key(fresh)
    IN IF next.r = "more" THEN next ELSE _rl_dispatch(next, next.key, next.keys.keymap)
readline_internal_charloop ==
    /\ Len(rl.ran) < MaxRan
    /\ Turn.r # "more"
    /\ rl' = [Turn EXCEPT !.r = "done", !.key = NoKey]
    /\ UNCHANGED <<home, edited, typed>>

---------------------------------------------------------------------------
Init ==
    /\ home \in Homes
    /\ edited = FALSE
    /\ typed = <<>>
    /\ rl = [keys |-> rl_prep_terminal(readline_initialize_everything(
                         Disk(home, FALSE), home.inputrc, home.local), FALSE),
             tty |-> <<>>, pushed |-> <<>>, pending |-> NoKey, key |-> NoKey, macros |-> <<>>,
             current |-> <<>>, defined |-> FALSE, defining |-> FALSE, explicit |-> FALSE,
             sign |-> 1, number |-> 1, length |-> 0, map |-> Emacs, ran |-> <<>>, r |-> "done",
             astray |-> FALSE]

Type(phrase) ==
    /\ Len(SelectSeq(typed, LAMBDA p : p # <<PAUSE>>)) < home.max
    /\ typed' = Append(typed, phrase)
    /\ rl' = [rl EXCEPT !.tty = @ \o phrase]
    /\ UNCHANGED <<home, edited>>
Pause ==
    /\ rl.tty # <<>>
    /\ rl.tty[Len(rl.tty)] # PAUSE
    /\ typed' = Append(typed, <<PAUSE>>)
    /\ rl' = [rl EXCEPT !.tty = Append(@, PAUSE)]
    /\ UNCHANGED <<home, edited>>
\* Everything typed has run, and no key is waited for in a sequence.
Settled == rl.tty = <<>> /\ rl.pushed = <<>> /\ rl.pending = NoKey
           /\ \A i \in 1..Len(rl.macros) : rl.macros[i].left = <<>>
Edit ==
    /\ Settled
    /\ ~edited
    /\ \E f \in DOMAIN home.files : Len(home.files[f]) > 1
    /\ edited' = TRUE
    /\ typed' = Append(typed, <<"EDIT">>)
    /\ UNCHANGED <<home, rl>>

Next ==
    \/ \E phrase \in home.phrases : Type(phrase)
    \/ Pause
    \/ Edit
    \/ readline_internal_charloop
\* The loop goes on while it may: weak fairness, with its guard written out.
Waits == Len(rl.ran) = MaxRan \/ Turn.r = "more"
Spec == Init /\ [][Next]_vars /\ ([]<>Waits \/ []<><<readline_internal_charloop>>_vars)
====
