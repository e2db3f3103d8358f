---- MODULE Completion ----
(***************************************************************************)
(* Completing the word before the cursor: src/lib/readline/complete.c, and *)
(* the tilde expansion of tilde.c and util.c.  The shell installs no       *)
(* completion function, no hook and no quoting characters, so words are    *)
(* completed to file names and the quoting code never runs.                *)
(*   set              the variables of the init file, by their C names     *)
(*   changed failed   completion_changed_buffer, last_completion_failed    *)
(*   old menu         the static state of rl_old_menu_complete and         *)
(*                    rl_menu_complete: matches, <<>> for NULL, begins     *)
(*                    with the common prefix; index counts from 0          *)
(* A list of matches is shown one to a row.                                *)
(***************************************************************************)
EXTENDS HistoryCommands

CONSTANTS Tree,              \* directories, named as opendir gets them, to entries
          Homes,             \* users, <<>> for the one who types, to directories
          ScreenHeight
ASSUME TreeAssumption ==
    /\ \A d \in DOMAIN Tree : \A f \in Tree[d] : f.name # <<>> /\ f.kind \in {"file", "dir", "link"}
    /\ <<>> \in DOMAIN Homes
    /\ ScreenHeight \in Nat \ {0, 1}

Defaults ==
    [rl_inhibit_completion |-> FALSE, _rl_complete_show_all |-> FALSE,
     _rl_complete_show_unmodified |-> FALSE, _rl_skip_completed_text |-> FALSE,
     _rl_complete_mark_directories |-> TRUE, _rl_complete_mark_symlink_dirs |-> FALSE,
     _rl_match_hidden_files |-> TRUE, _rl_completion_case_fold |-> FALSE,
     _rl_completion_case_map |-> FALSE, rl_complete_with_tilde_expansion |-> FALSE,
     _rl_menu_complete_prefix_first |-> FALSE, _rl_page_completions |-> TRUE,
     rl_completion_query_items |-> 100]
NoMenu == [orig |-> <<>>, start |-> 0, matches |-> <<>>, index |-> 0, delimiter |-> "", full |-> FALSE]

----
(* A tilde at the start of the text or after a blank stands for a home.    *)

tilde_find_prefix(s) ==
    LET starts == {i \in 1..Len(s) : s[i] = "~" /\ (i = 1 \/ White(s[i - 1]))}
    IN IF starts = {} THEN Len(s) ELSE SetMin(starts) - 1
tilde_find_suffix(s) ==
    LET ends == {i \in 1..Len(s) : s[i] \in {"/", " ", "LF"}}
    IN IF ends = {} THEN Len(s) ELSE SetMin(ends) - 1
tilde_expand_word(w) ==
    IF w # <<>> /\ Head(w) = "~" /\ Tail(w) \in DOMAIN Homes THEN Homes[Tail(w)] ELSE w
RECURSIVE tilde_expand(_)
tilde_expand(s) ==
    LET start == tilde_find_prefix(s)
        rest == Cut(s, start, Len(s))
        end == tilde_find_suffix(rest)
    IN IF start = 0 /\ end = 0 THEN <<>>
       ELSE Cut(s, 0, start) \o tilde_expand_word(Cut(rest, 0, end))
            \o tilde_expand(Cut(rest, end, Len(rest)))

rl_tilde_expand(e, n) ==
    LET at == e.point - 1
        start == CASE at < 0 -> 0
                   [] at >= 0 /\ e.line[at + 1] = "~" -> at
                   [] OTHER -> Back(e, e.point, White)
        stop == Ahead(e, Least(start + 1, End(e)), White) - 1
    IN IF start < End(e) /\ e.line[start + 1] = "~"
       THEN _rl_replace_text(e, tilde_expand(Cut(e.line, start, stop + 1)), start, stop)
       ELSE e

----
(* The names that complete a text.                                         *)

SmallOf(c) == IF c \in DOMAIN Small THEN Small[c] ELSE c
Slash(s) ==                                        \* the length up to the last slash
    LET slashes == {i \in 1..Len(s) : s[i] = "/"}
    IN IF slashes = {} THEN 0 ELSE SetMax(slashes)
Directory(path) == IF Slash(path) = 0 THEN <<".">> ELSE Cut(path, 0, Slash(path))
Name(path) == Cut(path, Slash(path), Len(path))
Entries(dir) ==                                    \* what readdir gives
    IF dir \notin DOMAIN Tree THEN {}
    ELSE Tree[dir] \cup {[name |-> n, kind |-> "dir"] : n \in {<<".">>, <<".", ".">>}}

complete_fncmp(e, name, typed) ==
    LET alike(c, d) == \/ SmallOf(c) = SmallOf(d)
                       \/ e.set._rl_completion_case_map /\ {c, d} = {"-", "_"}
    IN /\ Len(typed) <= Len(name)
       /\ IF e.set._rl_completion_case_fold
          THEN /\ SmallOf(name[1]) = SmallOf(typed[1])
               /\ \A i \in DOMAIN typed : alike(name[i], typed[i])
          ELSE IsPrefix(typed, name)
\* The directory that is read, and what is written before each name.
Opened(text) ==
    LET dir == Directory(text) IN IF dir[1] = "~" THEN tilde_expand(dir) ELSE dir
Under(e, text) ==
    LET dir == Directory(text)
    IN CASE Opened(text) = <<".">> -> <<>>
         [] e.set.rl_complete_with_tilde_expansion /\ dir[1] = "~" -> Opened(text)
         [] OTHER -> dir
Fits(e, name, typed) ==
    IF typed # <<>> THEN complete_fncmp(e, name, typed)
    ELSE /\ name \notin {<<".">>, <<".", ".">>}
         /\ e.set._rl_match_hidden_files \/ name[1] # "."
rl_filename_completion_function(e, text) ==
    {Under(e, text) \o f.name : f \in {g \in Entries(Opened(text)) : Fits(e, g.name, Name(text))}}

compute_lcd_of_matches(e, list, text) ==
    LET fold == e.set._rl_completion_case_fold
        same(c, d) == IF fold THEN SmallOf(c) = SmallOf(d) ELSE c = d
        agree(s, t) == CHOOSE k \in 0..Least(Len(s), Len(t)) :
                         /\ \A j \in 1..k : same(s[j], t[j])
                         /\ k = Least(Len(s), Len(t)) \/ ~same(s[k + 1], t[k + 1])
        low == SetMin({agree(list[i], list[i + 1]) : i \in 1..(Len(list) - 1)})
        lx == Least(Len(text), low)
        typed == {i \in DOMAIN list : Cut(list[i], 0, lx) = Cut(text, 0, lx)}
    IN IF low = 0 /\ text # <<>> THEN text
       ELSE Cut(list[IF fold /\ typed # {} THEN SetMin(typed) ELSE 1], 0, low)
\* One match is its own prefix and the whole list.
rl_completion_matches(e, text, names) ==
    LET list == SetToSeq(names)
    IN IF Len(list) <= 1 THEN list ELSE <<compute_lcd_of_matches(e, list, text)>> \o list
gen_completion_matches(e, text) ==
    rl_completion_matches(e, text, rl_filename_completion_function(e, text))
\* No function of the shell takes matches out, so only doubles go; what is left
\* is sorted.
remove_duplicate_matches(matches) ==
    LET once == SetToSeq(ToSet(Tail(matches)))
    IN <<matches[1]>> \o (IF once = <<matches[1]>> THEN <<>> ELSE once)
postprocess_matches(matches) ==
    IF matches = <<>> THEN <<>> ELSE remove_duplicate_matches(matches)

rl_basic_word_break_characters ==
    {" ", "TAB", "LF", "\"", "\\", "'", "BACKQUOTE", "@", "$", ">", "<", "=", ";", "|", "&", "{", "("}
\* Where the word before the cursor starts, and the quote it was opened with.
_rl_find_completion_word(e) ==
    LET start == Back(e, e.point, LAMBDA c : c \in rl_basic_word_break_characters)
        quoted == start > 0 /\ e.line[start] \in {"\"", "'"} /\ e.point > start
    IN [start |-> start, delimiter |-> IF quoted THEN e.line[start] ELSE ""]

----
(* Putting a match into the line.                                          *)

insert_match(e, match, start) ==
    LET there == CHOOSE k \in 0..Len(match) :
                   /\ \A j \in 1..k : start + j <= End(e) /\ e.line[start + j] = match[j]
                   /\ \/ k = Len(match) \/ start + k = End(e)
                      \/ e.line[start + k + 1] # match[k + 1]
        rest == Cut(match, there, Len(match))
        put == IF start + there < e.point \/ rest # <<>>
               THEN _rl_replace_text(e, rest, start + there, e.point - 1) ELSE e
    IN IF e.set._rl_skip_completed_text THEN At(put, start + there + Len(rest))
       ELSE _rl_replace_text(e, match, start, e.point - 1)

Kind(path) ==
    LET full == tilde_expand(path)
        found == {f \in Entries(Directory(full)) : f.name = Name(full)}
    IN IF found = {} THEN "none" ELSE (CHOOSE f \in found : TRUE).kind
\* A bug to check the properties against: the cursor stays before the mark.
append_to_match_behind(e, path, delimiter, nontrivial) ==
    IF Kind(path) = "dir" THEN At(rl_insert_text(e, <<"/">>), e.point) ELSE e
append_to_match(e, path, delimiter, nontrivial) ==
    LET kind == Kind(path)
        linked == kind = "link" /\ nontrivial /\ ~e.set._rl_complete_mark_symlink_dirs
        slashed == \/ e.point > 0 /\ e.point = End(e) /\ e.line[e.point] = "/"
                   \/ e.point < End(e) /\ e.line[e.point + 1] = "/"
        mark == kind \in {"dir", "link"} /\ e.set._rl_complete_mark_directories /\ ~slashed
    IN CASE linked -> e
         [] ~linked /\ kind \in {"dir", "link"} -> IF mark THEN rl_insert_text(e, <<"/">>) ELSE e
         [] OTHER -> IF e.point < End(e) THEN e
                     ELSE rl_insert_text(e, <<IF delimiter # "" THEN delimiter ELSE " ">>)

insert_all_matches(e, matches, start) ==
    LET cut == At(rl_delete_text(rl_begin_undo_group(e), start, e.point), start)
        put(x, match) == rl_insert_text(rl_insert_text(x, match), <<" ">>)
        all == IF Len(matches) = 1 THEN matches ELSE Tail(matches)
    IN rl_end_undo_group(FoldLeft(put, cut, all))

----
(* Showing the matches: with many, the user is asked; with more than the   *)
(* screen holds, after each page.                                          *)

RECURSIVE get_y_or_n(_, _)
get_y_or_n(e, for_pager) ==
    LET k == NextKey(e)
        answer(a) == [e |-> ReadKey(e), is |-> a]
    IN CASE k \in {"y", "Y", " "} -> answer("yes")
         [] k \in {"n", "N", "RUBOUT"} -> answer("no")
         [] k \in {EOF, "C-g"} -> [e |-> _rl_abort_internal(ReadKey(e)), is |-> "abort"]
         [] for_pager /\ k \in {"C-j", "RET"} -> answer("line")
         [] for_pager /\ k \in {"q", "Q"} -> answer("no")
         [] OTHER -> get_y_or_n(ReadKey(e), for_pager)

RECURSIVE rl_display_match_list(_, _, _)
rl_display_match_list(e, left, lines) ==
    LET asks == e.set._rl_page_completions /\ lines + 1 >= ScreenHeight - 1 /\ left > 1
        answer == get_y_or_n(e, TRUE)
    IN CASE left = 0 -> e
         [] left > 0 /\ ~asks -> rl_display_match_list(e, left - 1, lines + 1)
         [] left > 0 /\ asks /\ answer.is \in {"no", "abort"} -> answer.e
         [] OTHER -> rl_display_match_list(answer.e, left - 1,
                                           IF answer.is = "line" THEN lines ELSE 0)
display_matches(e, matches) ==
    LET items == e.set.rl_completion_query_items
        many == items > 0 /\ Len(matches) - 1 >= items
        answer == get_y_or_n(e, FALSE)
    IN CASE Len(matches) = 1 -> e
         [] Len(matches) > 1 /\ ~many -> rl_display_match_list(e, Len(matches) - 1, 0)
         [] OTHER -> IF answer.is # "yes" THEN answer.e
                     ELSE rl_display_match_list(answer.e, Len(matches) - 1, 0)

----
(* The commands.                                                           *)

\* TAB, "!" and "@" put the common prefix into the line, "*" all matches; what
\* is ambiguous is listed.
Completed(x, w, text, matches, what_to_do) ==
    LET lcd == matches[1]
        alone == Len(matches) = 1
        fills == lcd # <<>> /\ (what_to_do = "TAB" \/ alone \/ Len(lcd) >= Len(text))
        put == IF fills THEN insert_match(x, lcd, w.start) ELSE x
    IN IF alone THEN append_to_match(put, lcd, w.delimiter, lcd # text)
       ELSE IF what_to_do = "!" \/ (what_to_do = "@" /\ lcd = text)
       THEN display_matches(put, matches) ELSE put
Listed(x, w, text, matches, failed) ==
    LET lcd == matches[1]
    IN IF failed /\ lcd # <<>> /\ Len(matches) = 1
       THEN append_to_match(insert_match(x, lcd, w.start), lcd, w.delimiter, lcd # text)
       ELSE display_matches(x, matches)
rl_complete_internal(e, what_to_do) ==
    LET w == _rl_find_completion_word(e)
        text == Cut(e.line, w.start, e.point)
        matches == postprocess_matches(gen_completion_matches(e, text))
        x == IF matches[1] = <<>> THEN e ELSE [e EXCEPT !.failed = FALSE]
        done == CASE what_to_do = "*" -> insert_all_matches(x, matches, w.start)
                  [] what_to_do = "?" -> Listed(x, w, text, matches, e.failed)
                  [] OTHER -> Completed(x, w, text, matches, what_to_do)
    IN IF matches = <<>> THEN [e EXCEPT !.changed = FALSE, !.failed = TRUE]
       ELSE IF done.aborted THEN done
       ELSE [done EXCEPT !.changed = done.line # e.line]

rl_complete(e, n) ==
    CASE e.set.rl_inhibit_completion -> _rl_insert_char(e, n, e.key)
      [] ~e.set.rl_inhibit_completion /\ e.last = "rl_complete" /\ ~e.changed ->
           rl_complete_internal(e, "?")
      [] OTHER -> rl_complete_internal(e, IF e.set._rl_complete_show_all THEN "!"
                                          ELSE IF e.set._rl_complete_show_unmodified THEN "@"
                                          ELSE "TAB")
rl_possible_completions(e, n) == rl_complete_internal([e EXCEPT !.failed = FALSE], "?")
rl_insert_completions(e, n) == rl_complete_internal(e, "*")

\* The menus put in one match after the other, in place of the last one.
NewMenu(e) ==
    LET w == _rl_find_completion_word(e)
        text == Cut(e.line, w.start, e.point)
        matches == postprocess_matches(gen_completion_matches(e, text))
    IN [orig |-> text, start |-> w.start, matches |-> matches, index |-> 0,
        delimiter |-> w.delimiter, full |-> FALSE]
Moved(m, count) == [m EXCEPT !.index = (@ + count) % Len(m.matches)]
PutChoice(e, m, first) ==
    LET match == m.matches[m.index + 1]
    IN [IF m.index = 0 /\ Len(m.matches) > 1 THEN insert_match(e, first, m.start)
        ELSE append_to_match(insert_match(e, match, m.start), match, m.delimiter, match # m.orig)
          EXCEPT !.changed = TRUE]

rl_old_menu_complete(e, n) ==
    LET again == e.last = "rl_old_menu_complete"
        m == IF again THEN e.old ELSE NewMenu(e)
        shown == IF ~again /\ Len(m.matches) > 1 /\ e.set._rl_complete_show_all
                 THEN display_matches(e, m.matches) ELSE e
        next == Moved(m, n)
    IN CASE m.matches = <<>> -> [e EXCEPT !.changed = FALSE, !.old = m]
         [] m.matches # <<>> /\ shown.aborted -> [shown EXCEPT !.old = m]
         [] OTHER -> [PutChoice(shown, next, m.orig) EXCEPT !.old = next]

rl_menu_complete(e, n) ==
    LET again == e.last \in {"rl_menu_complete", "rl_backward_menu_complete"} /\ ~e.menu.full
        m == IF again THEN e.menu ELSE NewMenu(e)
        lcd == m.matches[1]
        several == Len(m.matches) > 1
        put == IF again \/ lcd = <<>> THEN e
               ELSE [insert_match(e, lcd, m.start) EXCEPT !.changed = lcd # m.orig]
        listing == ~again /\ several /\ e.set._rl_complete_show_all
        shown == IF listing THEN display_matches(put, m.matches) ELSE put
        items == e.set.rl_completion_query_items
        next == Moved(m, n)
    IN CASE m.matches = <<>> -> [e EXCEPT !.changed = FALSE, !.menu = m]
         [] m.matches # <<>> /\ ~again /\ ~several ->
              [append_to_match(put, lcd, m.delimiter, lcd # m.orig)
                 EXCEPT !.menu = [m EXCEPT !.full = TRUE]]
         [] listing /\ shown.aborted -> [shown EXCEPT !.menu = m]
         [] listing /\ ~shown.aborted /\ items > 0 /\ Len(m.matches) >= items ->
              [shown EXCEPT !.menu = [m EXCEPT !.matches = <<>>, !.full = TRUE]]
         [] ~again /\ several /\ e.set._rl_menu_complete_prefix_first
            /\ ~(listing /\ (shown.aborted \/ (items > 0 /\ Len(m.matches) >= items))) ->
              [shown EXCEPT !.menu = m]
         [] OTHER -> [PutChoice(shown, next, lcd) EXCEPT !.menu = next]
rl_backward_menu_complete(e, n) == rl_menu_complete(e, -n)
====
