---- MODULE MCEditor ----
EXTENDS Editor, TLC

Keys == {"a", "b", "e", " ", "/", "(", "~", "\""}
MyInputrc ==
    [rl_previous_screen_line |-> {"F1"}, rl_next_screen_line |-> {"F2"},
     rl_kill_full_line |-> {"F3"}, rl_unix_filename_rubout |-> {"F4"}, rl_kill_region |-> {"F5"},
     rl_copy_region_to_kill |-> {"F6"}, rl_copy_forward_word |-> {"F7"},
     rl_copy_backward_word |-> {"F8"}, rl_rubout_or_delete |-> {"F9"},
     rl_fetch_history |-> {"F10"}, rl_history_substr_search_forward |-> {"F11"},
     rl_history_substr_search_backward |-> {"F12"},
     rl_old_menu_complete |-> {"F13"}, rl_menu_complete |-> {"F14"},
     rl_backward_menu_complete |-> {"F15"}]
F(name, kind) == [name |-> name, kind |-> kind]
Files ==
    (<<".">> :> {F(<<"a", "b">>, "file"), F(<<"a", "e">>, "dir"), F(<<"A">>, "link"), F(<<".", "b">>, "file")})
    @@ (<<"a", "e", "/">> :> {F(<<"e", " ", "a">>, "file")})
    @@ (<<"/", "e", "/">> :> {F(<<"b">>, "dir")})
CommandNames ==
    (<<"a", "b">> :> "rl_kill_line") @@ (<<"a", "e">> :> "rl_upcase_word") @@ (<<"b">> :> "rl_yank")
    @@ (<<"e">> :> "rl_get_previous_history") @@ (<<"e", "e">> :> "rl_undo_command")
    @@ (<<"/">> :> "rl_yank_pop") @@ (<<"~">> :> "rl_complete") @@ (<<"(">> :> "rl_newline")
HomeDirectories == (<<>> :> <<"/", "e">>) @@ (<<"a">> :> <<"/">>)
One(ks) == {<<k>> : k \in ks}
Line(n) == SubSeq(<<<<"a", "b">>, <<"b", " ", "a">>, <<"a", "b">>>>, 1, n)
Text == <<"a", "b", " ", "e", "/", "a">>
S(vi, history, start, steps, keys) ==
    [vi |-> vi, revert |-> FALSE, steps |-> steps, history |-> history, start |-> start, keys |-> keys, set |-> Defaults]

KillSession == S(FALSE, <<>>, Text, 4,
    One({"C-k", "C-w", "C-u", "M-d", "M-RUBOUT", "C-y", "M-y", "C-a", "M-b", "C-_", "F4"}))
HistorySession == S(FALSE, Line(2), <<"e">>, 5,
    One({"C-p", "C-n", "b", "C-k", "C-_", "RET", "M-<", "M->", "PGUP"})
    \cup {<<"C-r", "a", "C-g">>, <<"M-p", "b", "RET">>, <<"C-r", "b", "RET">>})
\* revert-all-at-newline, and lines edited before the one that is accepted.
RevertSession == [S(FALSE, Line(2), <<>>, 6,
    One({"C-p", "C-n", "b", "C-_", "RET"}) \cup {<<"C-r", "a", "C-g">>}) EXCEPT !.revert = TRUE]
Emacs == UNION {EmacsStandard[f] : f \in DOMAIN EmacsStandard}
         \cup UNION {EmacsMeta[f] : f \in DOMAIN EmacsMeta}
         \cup UNION {EmacsCtlx[f] : f \in DOMAIN EmacsCtlx}
         \cup UNION {ArrowKeys[f] : f \in DOMAIN ArrowKeys}
         \cup UNION {MyInputrc[f] : f \in DOMAIN MyInputrc}
Readers ==
    {<<"C-r", "a", "C-g">>, <<"C-r", "a", "C-r", "RET">>, <<"C-s", "b", "ESC">>, <<"C-r", "e", "RUBOUT", "ESC">>,
     <<"M-p", "b", "RET">>, <<"M-p", "b", "C-g">>, <<"M-n", "a", "RET">>, <<"C-q", "C-k">>,
     <<"C-]", "a">>, <<"M-C-]", "a">>, <<"C-]", "PASTE", "a", "b", "RET", "PASTE-END">>,
     <<"C-r", "PASTE", "b", "PASTE-END", "C-w", "C-y", "ESC">>, <<"M--", "2", "C-f">>, <<"M-2", "b">>, <<"M-3", "M-d">>,
     <<"M--", "M-b">>, <<"M-2", "C-o">>, <<"PASTE", "a", "RET", "PASTE-END">>, <<"b">>}
Reading1 == {"M-x", "C-r", "C-s", "M-p", "M-n", "C-q", "C-v", "C-]", "M-C-]", "M--", "M-2", "M-3", "PASTE"}
EverySession == S(FALSE, <<<<"a", "b">>, <<"b", ">", "(", "\"", "a", "\"", " ", "(", " ", "e">>>>, Text \o <<"M-b">>, 2, One(Emacs \ Reading1) \cup Readers)

NamedSession == S(FALSE, Line(2), <<"a", "b", "C-b">>, 3,
    One({"C-p", "C-n", "C-k", "C-_", "b"})
    \cup {<<"M-x">> \o keys : keys \in
            {<<"a", "b", "RET">>, <<"a", "TAB", "e", "RET">>, <<"a", " ", "y">>,
             <<"e", "RET">>, <<"e", "TAB", "e", "C-j">>, <<"b", "C-g">>, <<"b", "RUBOUT", "RUBOUT">>,
             <<"b", "C-w", "a", "C-u", "RET">>, <<"C-q", "b", "RET">>, <<"/", "TAB", "RET">>,
             <<"~", "RET">>, <<"(", "RET">>, <<"PASTE", "b", "PASTE-END", "RET">>, <<"b", "b", "RET">>}})

ViKeys == UNION {ViMovement[f] : f \in DOMAIN ViMovement}
ViReading == {"C-v", "C-q", "C-r", "C-s", "f", "F", "t", "T", "/", "?", "d", "c", "y", "r", "m", "BACKQUOTE"}
             \cup Tens
ViReaders ==
    {<<"f", "a">>, <<"F", "b">>, <<"t", "/">>, <<"T", "a">>, <<"/", "b", "RET">>, <<"?", "a", "RET">>,
     <<"d", "w">>, <<"d", "d">>, <<"d", "2", "h">>, <<"c", "w", "e", "ESC">>, <<"c", "c", "b", "b", "ESC">>,
     <<"y", "e">>, <<"y", "y">>, <<"y", "%">>, <<"r", "b">>, <<"m", "a">>, <<"BACKQUOTE", "a">>,
     <<"2", "x">>, <<"3", "l">>, <<"d", "f", "b">>, <<"d", ";">>, <<"2", "G">>}
ViSession == S(TRUE, Line(2), Text \o <<"ESC">>, 2, One(ViKeys \ ViReading) \cup ViReaders)
ViInsertSession == S(TRUE, Line(2), Text \o <<"ESC">>, 4,
    {<<"i", "a", "b", "ESC">>, <<"A", "b", "ESC">>, <<"R", "e", "a", "ESC">>, <<"R", "b", "RUBOUT", "ESC">>,
     <<"s", "e", "ESC">>, <<"C", "a", "ESC">>, <<"c", "b", "a", "ESC">>, <<"p">>, <<"x">>, <<".">>, <<"u">>, <<"k">>, <<"RET">>,
     <<"ESC">>, <<"R", "a", "C-w", "C-y", "ESC">>, <<"R", "a", "C-u", "ESC">>, <<"R", "PASTE", "a", "PASTE-END", "ESC">>})
Completing == {"TAB", "M-=", "M-*", "F13", "F14", "F15", "b", "M-&", "C-_"}
Vars(on) == [v \in DOMAIN Defaults |->
               CASE v = "rl_completion_query_items" -> IF v \in on THEN 2 ELSE 100
                 [] OTHER -> Defaults[v] # (v \in on)]
C(on, text, steps, keys) == [S(FALSE, <<>>, text, steps, keys) EXCEPT !.set = Vars(on)]
CompletionSessions ==
    {C({}, text, 3, One(Completing)) : text \in
        {<<"a">>, <<"a", "e", "/">>, <<"~", "/">>, <<"b", " ">>, <<"\"", "a", "b">>, <<"b", "/", "e">>}}
    \cup {C({v}, <<"a", "e", "C-b">>, 3, One(Completing) \cup {<<"TAB", "n">>, <<"TAB", "y", "q">>}) :
            v \in DOMAIN Defaults}
    \cup {C({"_rl_complete_show_all", "rl_completion_query_items"}, <<"a", "e", "C-b">>, 3,
            One(Completing) \cup {<<"TAB", "y", "y">>, <<"F13", "C-g">>, <<"F14", "y", "RET">>})}
EditingSessions ==
    CompletionSessions \cup {NamedSession, EverySession, KillSession, HistorySession, RevertSession, ViSession, ViInsertSession}
====
