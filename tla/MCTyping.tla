---- MODULE MCTyping ----
(***************************************************************************)
(* Init files with the shapes that make binding and dispatching hard, and  *)
(* what users with them type.                                              *)
(***************************************************************************)
EXTENDS Typing

MCPrintable == {"a", "b", "c", "A", "2", "[", "M-a"}
MCLower == "A" :> "a"
MCEighth == "M-a" :> "a"
MCTerminalNames == {"xterm"}
MCSpecial == "C-v" :> "VLNEXT" @@ "C-w" :> "VWERASE"

Bind(keys, f) == [do |-> "bind", keys |-> keys, to |-> Function(f)]
BindMacro(keys, body) == [do |-> "bind", keys |-> keys, to |-> Macro(body)]
Unbind(keys) == [do |-> "bind", keys |-> keys, to |-> Null]
Key(meta, k, to) == [do |-> "key", meta |-> meta, key |-> k, to |-> to]
Set(name, value) == [do |-> "set", name |-> name, value |-> value]
If(test) == [do |-> "$if", test |-> test]
Mode(mode) == [on |-> "mode", is |-> mode]
Variable(name, op, value) == [on |-> "variable", name |-> name, op |-> op, is |-> value]
VersionIs(op, n) == [on |-> "version", op |-> op, is |-> n]
Else == [do |-> "$else"]
EndIf == [do |-> "$endif"]
Include(file) == [do |-> "$include", file |-> file]

Keys(ks) == {<<k>> : k \in ks}
User(lines, phrases, max) ==
    [files |-> "~/.inputrc" :> <<lines>>, inputrc |-> NoFile, local |-> FALSE,
     phrases |-> phrases, max |-> max]

\* Sequences that begin one another, bound before and after one another.
Shadows ==
    User(<<Bind(<<"a", "b", "c">>, "f1"), Bind(<<"b">>, "f2"), Bind(<<"b", "b", "c">>, "f3"),
           Bind(<<"a", "b">>, "f4"), Bind(<<"c", "a">>, "f5"), Unbind(<<"c", "a">>)>>,
         Keys({"a", "b", "c"}), 4)
\* Macros of keys, one inside another, one that ends in keys that wait for more.
Macros ==
    User(<<BindMacro(<<"a">>, <<"b", "b", "c">>), Bind(<<"b", "b", "b">>, "f1"),
           BindMacro(<<"c">>, <<"A", "a", "b">>), BindMacro(<<"b", "c">>, <<"A", "ESC", "2", "b">>)>>,
         Keys({"a", "b", "c", "A"}), 3)
\* Macros that call themselves and one another.
Loops ==
    User(<<BindMacro(<<"a">>, <<"A", "a">>), BindMacro(<<"b">>, <<"A", "c">>),
           BindMacro(<<"c">>, <<"2", "b">>)>>, Keys({"a", "b", "A"}), 2)
\* vi: ESC alone, and ESC before keys.
Vi == User(<<Set("editing-mode", "vi"), Bind(<<"a", "b">>, "f1"), Set("keymap", "vi"),
             Bind(<<"b", "b">>, "f2"), BindMacro(<<"c">>, <<"2", "b", "A", "a", "ESC">>)>>,
           Keys({"ESC", "a", "b", "c", "2", "RET"}) \cup {<<"ESC", "[", "A">>, <<"a", "b">>}, 3)
\* Arguments, prefix keys and keys with the eighth bit.
Arguments ==
    User(<<Key(FALSE, "c", Function("prefix-meta")), Key(TRUE, "a", Function("f1")),
           Bind(<<"ESC", "a", "b">>, "f2")>>,
         Keys({"ESC", "b", "c", "C-x"}) \cup {<<"ESC", "2">>, <<"ESC", "A">>, <<"C-v", "M-a">>}, 3)
\* A file of conditions and another included, edited and read again.
Conditions ==
    [files |-> "~/.inputrc" :>
         <<<<If(Mode("vi")), Bind(<<"a">>, "f1"), If(VersionIs(">", 80)), Bind(<<"b">>, "f1"), Else,
             Bind(<<"b", "c">>, "f1"), EndIf, Else, Set("keyseq-timeout", "0"),
             If(Variable("keyseq-timeout", "==", "0")), Include("more"), Else, Bind(<<"a">>, "f2"),
             EndIf, Bind(<<"b", "a">>, "f3"), EndIf, Bind(<<"c">>, "f4")>>,
           <<Set("keymap", "emacs-ctlx"), Bind(<<"a", "b">>, "f1"), Set("keymap", "emacs-meta"),
             Unbind(<<"b">>), Set("keymap", "emacs"), Unbind(<<"b", "a">>), Bind(<<"b", "c">>, "f5")>>>>
       @@ "more" :> <<<<Bind(<<"a", "b">>, "f2"), Bind(<<"a">>, "f3")>>>>,
     inputrc |-> NoFile, local |-> TRUE,
     phrases |-> {<<"C-x", "C-r">>, <<"a">>, <<"b">>, <<"c">>, <<"C-x", "a">>, <<"ESC", "b">>},
     max |-> 3]
\* Keyboard macros, and one of the file that calls them.
Recording ==
    User(<<BindMacro(<<"c">>, <<"C-x", "e">>), Bind(<<"a", "b">>, "f1")>>,
         Keys({"a", "c"}) \cup {<<"C-x", k>> : k \in {"(", ")", "e"}}, 4)
\* The terminal's special characters bound to other things, in both modes.
Terminals ==
    User(<<Bind(<<"C-w">>, "f1"), Bind(<<"C-v", "a">>, "f2"), BindMacro(<<"c">>, <<"C-w", "C-v", "a">>)>>,
         Keys({"C-w", "C-v", "a", "c", "RET"}), 3)
ViTerminals ==
    User(<<Set("editing-mode", "vi"), Bind(<<"C-w">>, "f1"), BindMacro(<<"C-v">>, <<"a", "C-w">>),
           Set("keymap", "vi"), Bind(<<"C-w">>, "f2"), Bind(<<"C-v", "b">>, "f3")>>,
         Keys({"ESC", "C-w", "C-v", "a", "b", "RET"}), 3)
Untouched ==
    User(<<Set("bind-tty-special-chars", "off"), Bind(<<"C-w">>, "f1"), Bind(<<"C-v">>, "f2")>>,
         Keys({"C-w", "C-v", "RET"}) \cup {<<"C-x", "C-r">>}, 3)
\* Macros whose keys cross the end of an inner one.
Crossing ==
    User(<<BindMacro(<<"a">>, <<"c", "A">>), BindMacro(<<"c">>, <<"b", "b">>),
           Bind(<<"b", "b", "c">>, "f1")>>, Keys({"a", "b", "c", "A"}), 3)
\* Files that mean something else when they are read again.
Unbinding ==
    User(<<Unbind(<<"b", "a">>), Bind(<<"b", "a", "a">>, "f1"), Unbind(<<"ESC", "[">>)>>,
         Keys({"a", "b"}) \cup {<<"C-x", "C-r">>, <<"ESC", "[">>}, 4)
ViRereading ==
    User(<<Bind(<<"a", "b">>, "f1"), Set("editing-mode", "vi"), Set("keymap", "vi"),
           Bind(<<"ESC">>, "f2"), Bind(<<"c">>, "rl_re_read_init_file")>>,
         Keys({"ESC", "a", "b", "c"}), 4)
MCHomes == {Shadows, Macros, Loops, Vi, Arguments, Conditions, Recording,
            Terminals, ViTerminals, Untouched, Crossing, Unbinding, ViRereading}
====
