---------------------------- MODULE TerminalProofs ----------------------------
(* Proofs about Terminal, for any settings, any signals the shell was started *)
(* to ignore and any number of signals, handled at any depth.  What is still  *)
(* to do is a stack, so the inductive invariant says two things of it: what   *)
(* the call on top needs of the terminal and of the handlers, and which call  *)
(* may follow which, so that what one leaves is what the next one needs.      *)
EXTENDS Terminal, TLAPS

-----------------------------------------------------------------------------
(* Types.                                                                      *)
Taken        == Signals \ {"WINCH"}
Settable     == [Flags -> BOOLEAN]
Dispositions == {"app", "default", "ignore", "readline", "winch"}
Keys         == Signals \cup {None, "x", "RET", "C-r", "C-g", "EOF", "READERR"}

Frames ==
  {<<c>> : c \in {"main", "command", "exit", "read", "dispatch", "search", "lastc",
                  "searching", "check", "prep", "raw", "flag", "deprep", "set", "setwinch", "clear",
                  "cleared"}}
  \cup {<<c, s>> : c \in {"handle", "kill"}, s \in Signals}
  \cup {<<"restore", s>> : s \in Taken}
  \cup {<<"select", e>> : e \in {"READERR", "EOF"}}
  \cup {<<"unblock", m>> : m \in SUBSET Signals}

Readline == [prepped : BOOLEAN, otio : Settable, caught : Signals \cup {None}, set : BOOLEAN,
             winch : BOOLEAN, old : [Signals -> Dispositions],
             context : {None, "live", "freed"}, next : {None, "RET"}]

TypeOK ==
  /\ run \in {"runs", "stopped", "ended", "undefined"} /\ todo \in Seq(Frames)
  /\ mode \in Settable /\ user \in Settable /\ hung \in BOOLEAN
  /\ rl \in Readline
  /\ handler \in [Signals -> Dispositions]
  /\ mask \subseteq Signals /\ pending \subseteq Signals /\ sent \in 0..MaxSignals
  /\ keep_running \in BOOLEAN /\ key \in Keys /\ astray \in BOOLEAN

-----------------------------------------------------------------------------
(* Which call may follow which.                                                *)
Reading  == {"read", "select", "dispatch", "search", "lastc", "searching"}
AfterIn  == Reading \cup {"check", "deprep", "set"}
AfterOut == {"command", "unblock", "kill", "exit"}

Link(f, g) ==
  /\ f[1] \notin {"main", "exit"} /\ g[1] \notin {"raw", "flag"}
  /\ f[1] \in Reading \cup {"check", "set", "setwinch", "handle"} => g[1] \in AfterIn
  /\ f[1] \in {"clear", "cleared"} => g[1] \in AfterOut
  /\ f[1] = "command" => g[1] = "main"
  /\ f[1] = "unblock" => g[1] = "kill"
  /\ f[1] = "kill" => g[1] = "prep"
  /\ f[1] \in {"prep", "raw", "flag"} => g[1] = "set"
  /\ f[1] = "deprep" => g[1] = "clear"
  /\ f[1] = "restore" =>
       \A k \in 1..5 : f[2] = Caught[k] =>
         g = IF k = 5 THEN <<"cleared">> ELSE <<"restore", Caught[k + 1]>>

(* A check may come before rl_clear_signals only on top, for                  *)
(* rl_deprep_terminal.                                                         *)
OnTop(f, g) == Link(f, g) \/ (f[1] = "check" /\ g[1] = "clear")
Stacked(s) ==
  /\ \A i \in 2..Len(s) - 1 : Link(s[i], s[i + 1])
  /\ Len(s) > 1 => OnTop(s[1], s[2])

-----------------------------------------------------------------------------
(* What the call on top needs.                                                 *)
Own == {"default", "ignore", "app"}
Out == ~rl.prepped /\ ~rl.set /\ ~rl.winch
In  == rl.prepped /\ rl.set /\ rl.winch

Restored(s) == handler[s] \in Own /\ (s = "INT" => handler[s] = "app")

Needs(c) ==
  /\ c \in AfterOut \cup {"main", "prep", "raw", "flag"} => Out
  /\ c \in Reading => In
  /\ c = "set" => rl.prepped /\ rl.set = rl.winch
  /\ c = "setwinch" => rl.prepped /\ rl.set
  /\ c \in {"clear", "restore", "cleared"} => ~rl.prepped
  /\ c = "restore" => rl.set

Need ==
  todo # <<>> =>
    /\ Needs(todo[1][1])
    /\ todo[1][1] \in {"raw", "flag"} => rl.otio = user /\ run # "stopped"
    /\ todo[1][1] = "flag" => mode = prepare_terminal_settings(user) /\ run # "ended"
    /\ todo[1][1] = "check" /\ Len(todo) > 1 =>
         IF todo[2][1] \in {"clear", "set"} THEN Needs(todo[2][1])
         ELSE todo[2][1] # "deprep" => In
    /\ todo[1][1] = "restore" =>
         \A k \in 1..5 : todo[1][2] = Caught[k] => \A j \in 1..k - 1 : Restored(Caught[j])
    /\ todo[1][1] = "cleared" => \A j \in 1..5 : Restored(Caught[j])

-----------------------------------------------------------------------------
(* The terminal and the handlers, whoever has them.  Between two steps of      *)
(* rl_prep_terminal the settings are readline's and its flag is not set.       *)
Between == todo # <<>> /\ todo[1][1] = "flag"

Terminals ==
  /\ rl.prepped => rl.otio = user /\ mode = prepare_terminal_settings(user)
  /\ ~rl.prepped /\ ~Between => mode = user
  /\ run \in {"stopped", "ended"} => ~rl.prepped

Handlers ==
  /\ ~rl.set => \A s \in Taken : Restored(s)
  /\ rl.set => /\ \A s \in Taken : /\ rl.old[s] \in Own
                                   /\ rl.old[s] = "ignore" => handler[s] = "ignore"
               /\ rl.old["INT"] = "app"
  /\ rl.set /\ rl.prepped =>
       \A s \in Taken : handler[s] = IF rl.old[s] = "ignore" THEN "ignore" ELSE "readline"
  /\ rl.winch => rl.old["WINCH"] \in Own /\ handler["WINCH"] \in {"winch", "ignore"}
  /\ ~rl.winch => handler["WINCH"] \in Own

Calm == ~hung /\ ~astray
Sound == Stacked(todo) /\ Need /\ Terminals /\ Handlers
IInv == TypeOK /\ (Calm => Sound)
-----------------------------------------------------------------------------
(* Stacks.                                                                     *)
(* What a call leaves when it returns.                                         *)
LEMMA Returning ==
  ASSUME NEW s \in Seq(Frames), s # <<>>, Stacked(s)
  PROVE  LET t == <<>> \o Tail(s) IN
         /\ t \in Seq(Frames) /\ Stacked(t)
         /\ t # <<>> => Len(s) > 1 /\ t[1] = s[2]
         /\ Len(t) > 1 => Link(t[1], t[2])
<1> DEFINE t == <<>> \o Tail(s)
<1>1. /\ t \in Seq(Frames) /\ Len(t) = Len(s) - 1
      /\ \A i \in 1..Len(t) : t[i] = s[i + 1]
  OBVIOUS
<1>2. Len(s) \in Nat /\ Len(t) \in Nat
  BY <1>1
<1> HIDE DEF t
<1>3. \A i \in 1..Len(t) - 1 : Link(t[i], t[i + 1])
  <2> TAKE i \in 1..Len(t) - 1
  <2>1. i + 1 \in 2..Len(s) - 1 /\ t[i] = s[i + 1] /\ t[i + 1] = s[i + 1 + 1]
    BY <1>1, <1>2
  <2> QED BY <2>1 DEF Stacked
<1>4. Stacked(t)
  BY <1>2, <1>3 DEF Stacked, OnTop
<1>5. t # <<>> => Len(s) > 1 /\ t[1] = s[2]
  BY <1>1
<1>6. Len(t) > 1 => Link(t[1], t[2])
  BY <1>2, <1>3
<1> QED BY <1>1, <1>4, <1>5, <1>6 DEF t

(* What a call leaves that calls others.                                       *)
LEMMA Calling ==
  ASSUME NEW s \in Seq(Frames), s # <<>>, Stacked(s),
         NEW body \in Seq(Frames), body # <<>>, Stacked(body),
         Len(s) > 1 => IF Len(body) = 1 THEN OnTop(body[1], s[2])
                       ELSE Link(body[Len(body)], s[2])
  PROVE  LET t == body \o Tail(s) IN
         /\ t \in Seq(Frames) /\ Stacked(t) /\ t # <<>> /\ t[1] = body[1]
         /\ Len(body) > 1 => Len(t) > 1 /\ t[2] = body[2]
         /\ Len(body) = 1 => /\ Len(t) = Len(s)
                             /\ Len(s) > 1 => t[2] = s[2]
<1> DEFINE n == Len(body)
           t == body \o Tail(s)
<1>1. /\ t \in Seq(Frames) /\ Len(t) = n + Len(s) - 1
      /\ \A i \in 1..n : t[i] = body[i]
      /\ \A i \in n + 1..Len(t) : t[i] = s[i - n + 1]
  OBVIOUS
<1>2. /\ Len(s) \in Nat /\ Len(t) \in Nat /\ n \in Nat /\ n >= 1 /\ Len(s) >= 1
      /\ Len(t) = n + Len(s) - 1
  BY <1>1
<1>0. /\ Len(s) > 1 => IF n = 1 THEN OnTop(body[1], s[2]) ELSE Link(body[n], s[2])
      /\ \A i \in 2..n - 1 : Link(body[i], body[i + 1])
      /\ n > 1 => OnTop(body[1], body[2])
  BY DEF Stacked
<1> HIDE DEF t, n
<1>3. \A i \in 2..Len(t) - 1 : Link(t[i], t[i + 1])
  <2> TAKE i \in 2..Len(t) - 1
  <2>1. CASE i < n
    <3>1. i \in 2..n - 1 /\ t[i] = body[i] /\ t[i + 1] = body[i + 1]
      BY <1>1, <1>2, <2>1
    <3> QED BY <1>0, <3>1
  <2>2. CASE i = n
    <3>1. n # 1 /\ Len(s) > 1 /\ n + 1 \in n + 1..Len(t) /\ n \in 1..n
      BY <1>2, <2>2
    <3>2. n + 1 - n + 1 = 2
      BY <1>2
    <3>3. t[i] = body[n] /\ t[i + 1] = s[2]
      BY <1>1, <2>2, <3>1, <3>2
    <3> QED BY <1>0, <3>1, <3>3
  <2>3. CASE i > n
    <3>1. i - n + 1 \in 2..Len(s) - 1 /\ t[i] = s[i - n + 1] /\ t[i + 1] = s[i - n + 1 + 1]
      BY <1>1, <1>2, <2>3
    <3> QED BY <3>1 DEF Stacked
  <2> QED BY <1>2, <2>1, <2>2, <2>3
<1>4. t # <<>> /\ t[1] = body[1] /\ (n > 1 => Len(t) > 1 /\ t[2] = body[2])
  BY <1>1, <1>2
<1>5. n = 1 => Len(t) = Len(s) /\ (Len(s) > 1 => t[2] = s[2])
  BY <1>1, <1>2
<1>6. Len(t) > 1 => OnTop(t[1], t[2])
  <2>1. CASE n > 1
    BY <1>0, <1>4, <2>1
  <2>2. CASE n = 1
    BY <1>0, <1>4, <1>5, <2>2
  <2> QED BY <1>2, <2>1, <2>2
<1> QED BY <1>1, <1>3, <1>4, <1>5, <1>6 DEF Stacked, t, n

-----------------------------------------------------------------------------
(* The calls each function makes.                                              *)
Body(b) == b \in Seq(Frames) /\ b # <<>> /\ Stacked(b)

LEMMA ReadlineBody ==
  LET b == readline \o <<<<"command">>, <<"main">>>> IN
  Body(b) /\ Len(b) = 9 /\ b[1] = <<"prep">> /\ b[2] = <<"set">> /\ b[9] = <<"main">>
<1> DEFINE b == <<<<"prep">>, <<"set">>, <<"check">>, <<"read">>, <<"check">>, <<"deprep">>,
                  <<"clear">>, <<"command">>, <<"main">>>>
<1>1. b = readline \o <<<<"command">>, <<"main">>>>
  BY DEF readline, readline_internal
<1>2. b \in Seq(Frames)
  BY DEF Frames
<1>3. Stacked(b)
  BY DEF Stacked, OnTop, Link, AfterIn, AfterOut, Reading
<1>4. b # <<>> /\ Len(b) = 9 /\ b[1] = <<"prep">> /\ b[2] = <<"set">> /\ b[9] = <<"main">>
  OBVIOUS
<1> HIDE DEF b
<1> QED BY <1>1, <1>2, <1>3, <1>4 DEF Body

LEMMA CleanupBody ==
  LET b == cleanup_rickshell IN
  Body(b) /\ Len(b) = 3 /\ b[1] = <<"deprep">> /\ b[2] = <<"clear">> /\ b[3] = <<"exit">>
<1> DEFINE b == <<<<"deprep">>, <<"clear">>, <<"exit">>>>
<1>1. b = cleanup_rickshell
  BY DEF cleanup_rickshell, rl_cleanup_after_signal
<1>2. b \in Seq(Frames)
  BY DEF Frames
<1>3. Stacked(b)
  BY DEF Stacked, OnTop, Link, AfterIn, AfterOut, Reading
<1>4. b # <<>> /\ Len(b) = 3 /\ b[1] = <<"deprep">> /\ b[2] = <<"clear">> /\ b[3] = <<"exit">>
  OBVIOUS
<1> HIDE DEF b
<1> QED BY <1>1, <1>2, <1>3, <1>4 DEF Body

LEMMA ReadBody ==
  LET b == rl_read_key("READERR") \o <<<<"dispatch">>>> IN
  Body(b) /\ Len(b) = 4 /\ b[1] = <<"check">> /\ b[2] = <<"select", "READERR">>
  /\ b[4] = <<"dispatch">>
<1> DEFINE b == <<<<"check">>, <<"select", "READERR">>, <<"check">>, <<"dispatch">>>>
<1>1. b = rl_read_key("READERR") \o <<<<"dispatch">>>>
  BY DEF rl_read_key
<1>2. b \in Seq(Frames)
  BY DEF Frames
<1>3. Stacked(b)
  BY DEF Stacked, OnTop, Link, AfterIn, AfterOut, Reading
<1>4. b # <<>> /\ Len(b) = 4 /\ b[1] = <<"check">> /\ b[2] = <<"select", "READERR">> /\ b[4] = <<"dispatch">>
  OBVIOUS
<1> HIDE DEF b
<1> QED BY <1>1, <1>2, <1>3, <1>4 DEF Body

LEMMA SearchBody ==
  LET b == rl_read_key("EOF") \o <<<<"lastc">>, <<"check">>, <<"searching">>>> IN
  Body(b) /\ Len(b) = 6 /\ b[1] = <<"check">> /\ b[2] = <<"select", "EOF">>
  /\ b[6] = <<"searching">>
<1> DEFINE b == <<<<"check">>, <<"select", "EOF">>, <<"check">>, <<"lastc">>, <<"check">>,
                  <<"searching">>>>
<1>1. b = rl_read_key("EOF") \o <<<<"lastc">>, <<"check">>, <<"searching">>>>
  BY DEF rl_read_key
<1>2. b \in Seq(Frames)
  BY DEF Frames
<1>3. Stacked(b)
  BY DEF Stacked, OnTop, Link, AfterIn, AfterOut, Reading
<1>4. b # <<>> /\ Len(b) = 6 /\ b[1] = <<"check">> /\ b[2] = <<"select", "EOF">> /\ b[6] = <<"searching">>
  OBVIOUS
<1> HIDE DEF b
<1> QED BY <1>1, <1>2, <1>3, <1>4 DEF Body

LEMMA HandleBody ==
  ASSUME NEW s \in Signals, NEW m \in SUBSET Signals
  PROVE  LET again == <<<<"kill", s>>>> \o rl_reset_after_signal
             b     == rl_cleanup_after_signal \o <<<<"unblock", m>>>> \o again
             c     == rl_cleanup_after_signal \o again IN
         /\ Body(b) /\ Len(b) = 6 /\ b[1] = <<"deprep">> /\ b[2] = <<"clear">> /\ b[6] = <<"set">>
         /\ Body(c) /\ Len(c) = 5 /\ c[1] = <<"deprep">> /\ c[2] = <<"clear">> /\ c[5] = <<"set">>
<1> DEFINE again == <<<<"kill", s>>>> \o rl_reset_after_signal
           b == <<<<"deprep">>, <<"clear">>, <<"unblock", m>>, <<"kill", s>>, <<"prep">>, <<"set">>>>
           c == <<<<"deprep">>, <<"clear">>, <<"kill", s>>, <<"prep">>, <<"set">>>>
<1>1. b = rl_cleanup_after_signal \o <<<<"unblock", m>>>> \o again
  BY DEF rl_cleanup_after_signal, rl_reset_after_signal
<1>2. c = rl_cleanup_after_signal \o again
  BY DEF rl_cleanup_after_signal, rl_reset_after_signal
<1>3. b \in Seq(Frames) /\ c \in Seq(Frames)
  BY DEF Frames
<1>4. Stacked(b)
  BY DEF Stacked, OnTop, Link, AfterIn, AfterOut, Reading
<1>5. Stacked(c)
  BY DEF Stacked, OnTop, Link, AfterIn, AfterOut, Reading
<1>6. b # <<>> /\ Len(b) = 6 /\ b[1] = <<"deprep">> /\ b[2] = <<"clear">> /\ b[6] = <<"set">>
  OBVIOUS
<1>7. c # <<>> /\ Len(c) = 5 /\ c[1] = <<"deprep">> /\ c[2] = <<"clear">> /\ c[5] = <<"set">>
  OBVIOUS
<1> HIDE DEF b, c
<1> QED BY <1>1, <1>2, <1>3, <1>4, <1>5, <1>6, <1>7 DEF Body

LEMMA ClearBody ==
  LET b == [i \in DOMAIN Caught |-> <<"restore", Caught[i]>>] \o <<<<"cleared">>>> IN
  Body(b) /\ Len(b) = 6 /\ b[1] = <<"restore", "INT">> /\ b[6] = <<"cleared">>
<1> DEFINE b == <<<<"restore", "INT">>, <<"restore", "TERM">>, <<"restore", "HUP">>,
                  <<"restore", "TSTP">>, <<"restore", "TTOU">>, <<"cleared">>>>
<1>1. b = [i \in DOMAIN Caught |-> <<"restore", Caught[i]>>] \o <<<<"cleared">>>>
  BY DEF Caught
<1>2. b \in Seq(Frames)
  BY DEF Frames, Taken, Signals
<1>3. Stacked(b)
  BY DEF Stacked, OnTop, Link, AfterIn, AfterOut, Reading, Caught
<1>4. b # <<>> /\ Len(b) = 6 /\ b[1] = <<"restore", "INT">> /\ b[6] = <<"cleared">>
  OBVIOUS
<1> HIDE DEF b
<1> QED BY <1>1, <1>2, <1>3, <1>4 DEF Body

LEMMA ShortBodies ==
  /\ \A c \in {"dispatch", "search", "check", "raw", "flag", "setwinch", "cleared"} : Body(<<<<c>>>>)
  /\ \A s \in Signals : Body(<<<<"handle", s>>>>)
  /\ Body(<<<<"check">>, <<"read">>>>)
  /\ Body(<<<<"search">>, <<"check">>, <<"read">>>>)
  /\ \A e \in {"READERR", "EOF"} : Body(<<<<"check">>, <<"select", e>>>>)
<1>1. ASSUME NEW c \in {"dispatch", "search", "check", "raw", "flag", "setwinch", "cleared"}
      PROVE  Body(<<<<c>>>>)
  BY DEF Body, Stacked, Frames
<1>2. ASSUME NEW s \in Signals PROVE Body(<<<<"handle", s>>>>)
  BY DEF Body, Stacked, Frames
<1>3. Body(<<<<"check">>, <<"read">>>>)
  BY DEF Body, Stacked, OnTop, Link, AfterIn, AfterOut, Reading, Frames
<1>4. Body(<<<<"search">>, <<"check">>, <<"read">>>>)
  BY DEF Body, Stacked, OnTop, Link, AfterIn, AfterOut, Reading, Frames
<1>5. ASSUME NEW e \in {"READERR", "EOF"} PROVE Body(<<<<"check">>, <<"select", e>>>>)
  BY DEF Body, Stacked, OnTop, Link, AfterIn, AfterOut, Reading, Frames
<1> QED BY <1>1, <1>2, <1>3, <1>4, <1>5

-----------------------------------------------------------------------------
(* Types.                                                                      *)
LEMMA Arguments ==
  ASSUME NEW s \in Seq(Frames), s # <<>>
  PROVE  /\ Head(s) \in Frames /\ Head(s) = s[1]
         /\ Head(s)[1] \in {"handle", "kill"} => Head(s)[2] \in Signals
         /\ Head(s)[1] = "restore" => Head(s)[2] \in Taken
         /\ Head(s)[1] = "unblock" => Head(s)[2] \in SUBSET Signals
         /\ Head(s)[1] = "select" => /\ Head(s)[2] \in {"READERR", "EOF"}
                                     /\ Head(s) = <<"select", Head(s)[2]>>
<1>1. Head(s) \in Frames /\ Head(s) = s[1]
  OBVIOUS
<1> QED BY <1>1 DEF Frames

LEMMA Appending ==
  ASSUME NEW s \in Seq(Frames), s # <<>>, NEW b \in Seq(Frames)
  PROVE  b \o Tail(s) \in Seq(Frames)
OBVIOUS

LEMMA InitType == Init => TypeOK
<1> SUFFICES ASSUME Init PROVE TypeOK
  OBVIOUS
<1>1. todo \in Seq(Frames)
  BY DEF Init, Frames
<1>2. mode \in Settable
  BY TerminalAssumption DEF Init, Settable
<1>3. rl \in Readline
  BY <1>2 DEF Init, Readline, Dispositions
<1>4. handler \in [Signals -> Dispositions]
  BY DEF Init, Dispositions
<1>5. user \in Settable /\ hung \in BOOLEAN
  BY <1>2 DEF Init
<1>7. sent \in 0..MaxSignals
  BY TerminalAssumption DEF Init
<1>6. /\ run \in {"runs", "stopped", "ended", "undefined"} /\ mask \subseteq Signals
      /\ pending \subseteq Signals /\ keep_running \in BOOLEAN /\ key \in Keys
      /\ astray \in BOOLEAN
  BY DEF Init, Keys
<1> QED BY <1>1, <1>2, <1>3, <1>4, <1>5, <1>6, <1>7 DEF TypeOK

(* The stack holds calls, whatever is called.                                  *)
LEMMA StackType == TypeOK /\ [Next]_vars => todo' \in Seq(Frames)
<1> SUFFICES ASSUME TypeOK, [Next]_vars, todo' # todo PROVE todo' \in Seq(Frames)
  BY DEF TypeOK
<1>1. todo \in Seq(Frames) /\ mask \in SUBSET Signals
  BY DEF TypeOK
<1>2. ASSUME todo # <<>>, Returns PROVE todo' \in Seq(Frames)
  BY <1>1, <1>2, Returning DEF Returns, Call
<1>3. ASSUME NEW b, Body(b), todo # <<>>, Call(b) PROVE todo' \in Seq(Frames)
  BY <1>1, <1>3, Appending DEF Call, Body
<1>4. todo # <<>> =>
        /\ Head(todo)[1] \in {"handle", "kill"} => Arg \in Signals
        /\ Head(todo)[1] = "select" =>
             /\ Arg \in {"READERR", "EOF"}
             /\ Head(todo) = <<"select", Arg>>
  BY <1>1, Arguments DEF Arg
<1>5. CASE Main
  BY <1>3, <1>5, ReadlineBody, CleanupBody DEF Main, Step, At
<1>6. CASE Read
  BY <1>3, <1>6, ReadBody, ShortBodies DEF Read, Step, At
<1>7. CASE Dispatch
  BY <1>2, <1>3, <1>7, ShortBodies DEF Dispatch, Step, At
<1>8. CASE Search
  BY <1>3, <1>8, SearchBody DEF Search, Step, At
<1>9. CASE Searching
  BY <1>2, <1>3, <1>9, ShortBodies DEF Searching, UseFreed, Step, At
<1>10. CASE Check
  <2>1. rl.caught \in Signals \cup {None}
    BY DEF TypeOK, Readline
  <2>2. CASE rl.caught \in {None, "WINCH"}
    BY <1>2, <1>10, <2>2 DEF Check, Step, At, Returns
  <2>3. CASE rl.caught \notin {None, "WINCH"}
    BY <1>3, <1>10, <2>1, <2>3, ShortBodies DEF Check, Step, At
  <2> QED BY <2>2, <2>3
<1>11. CASE Handle
  <2>1. Arg \in Signals
    BY <1>4, <1>11 DEF Handle, Step, At
  <2> QED BY <1>1, <1>3, <1>11, <2>1, HandleBody DEF Handle, Step, At
<1>12. CASE Prep \/ PrepRaw \/ PrepFlag \/ Deprep \/ SetSignals
  BY <1>2, <1>3, <1>12, ShortBodies DEF Prep, PrepRaw, PrepFlag, Deprep, SetSignals, Step, At
<1>13. CASE ClearSignals
  BY <1>3, <1>13, ClearBody, ShortBodies DEF ClearSignals, Step, At
<1>14. ASSUME NEW s \in Signals, Deliver(s) PROVE todo' \in Seq(Frames)
  <2>1. At("select") /\ Interrupted
    BY <1>14 DEF Deliver, Noticed
  <2>2. Head(todo) = <<"select", Arg>>
    BY <1>4, <2>1 DEF At
  <2>3. Body(<<<<"check">>, Head(todo)>>)
    BY <1>4, <2>1, <2>2, ShortBodies DEF At
  <2> QED BY <1>2, <1>3, <2>1, <2>3 DEF Interrupted, At
<1>15. CASE Command \/ Exit \/ Lastc \/ Unblock \/ Kill \/ SetWinch \/ Restore \/ Cleared
            \/ Select
  BY <1>2, <1>15 DEF Command, Exit, Lastc, UseFreed, Unblock, Kill, SetWinch, Restore, Cleared,
       Select, Step, At
<1>16. ASSUME NEW s \in Signals, Arrive(s) PROVE FALSE
  BY <1>16 DEF Arrive, process
<1>17. CASE Continue \/ Hangup
  BY <1>17 DEF Continue, Hangup, process
<1>18. CASE UNCHANGED vars
  BY <1>18 DEF vars, process
<1> QED
  BY <1>5, <1>6, <1>7, <1>8, <1>9, <1>10, <1>11, <1>12, <1>13, <1>14, <1>15, <1>16, <1>17, <1>18
  DEF Next, Program

LEMMA TypeStep == TypeOK /\ [Next]_vars => TypeOK'
<1> SUFFICES ASSUME TypeOK, [Next]_vars PROVE TypeOK'
  OBVIOUS
<1>1. todo' \in Seq(Frames)
  BY StackType
<1> DEFINE Rest == /\ run \in {"runs", "stopped", "ended", "undefined"}
                   /\ mode \in Settable /\ user \in Settable /\ hung \in BOOLEAN
                   /\ rl \in Readline
                   /\ handler \in [Signals -> Dispositions]
                   /\ mask \subseteq Signals /\ pending \subseteq Signals /\ sent \in 0..MaxSignals
                   /\ keep_running \in BOOLEAN /\ key \in Keys /\ astray \in BOOLEAN
<1>2. Rest
  BY DEF TypeOK
<1>0. SUFFICES Rest'
  BY <1>1 DEF TypeOK
<1>3. todo # <<>> =>
        /\ Head(todo)[1] \in {"handle", "kill"} => Arg \in Signals
        /\ Head(todo)[1] = "unblock" => Arg \subseteq Signals
        /\ Head(todo)[1] = "select" => Arg \in {"READERR", "EOF"}
  BY Arguments DEF Arg, TypeOK
<1>4. CASE Main \/ Exit \/ Search \/ Lastc \/ ClearSignals
  BY <1>2, <1>4 DEF Main, Exit, Search, Lastc, UseFreed, ClearSignals, Step, Call, Returns, tty, signals
<1>5. CASE Command
  BY <1>2, <1>5, TerminalAssumption DEF Command, Returns, Call, Step, tty, signals, Settable
<1>6. CASE Read \/ Dispatch \/ Searching \/ Select
  <2>1. rl' \in Readline
    BY <1>2, <1>6 DEF Read, Dispatch, Searching, Select, UseFreed, Readline
  <2>2. key' \in Keys
    BY <1>2, <1>6 DEF Read, Dispatch, Searching, Select, UseFreed, Readline, Keys
  <2> QED BY <1>2, <1>6, <2>1, <2>2
      DEF Read, Dispatch, Searching, Select, UseFreed, Step, Call, Returns, tty, signals
<1>7. CASE Check
  <2>1. rl' \in Readline
    BY <1>2, <1>7 DEF Check, Readline
  <2> QED BY <1>2, <1>7, <2>1 DEF Check, Step, Call, tty, signals
<1>8. CASE Handle
  <2>1. rl' \in Readline
    BY <1>2, <1>8 DEF Handle, Readline, rl_free_line_state
  <2>2. mask' \subseteq Signals
    BY <1>2, <1>8 DEF Handle, Signals
  <2> QED BY <1>2, <1>8, <2>1, <2>2 DEF Handle, Step, Call, tty
<1>9. CASE Unblock \/ Kill
  BY <1>2, <1>3, <1>9 DEF Unblock, Kill, Step, At, Returns, Call, tty
<1>10. CASE Prep \/ PrepRaw \/ PrepFlag \/ Deprep
  <2>1. \A m \in Settable : prepare_terminal_settings(m) \in Settable
    BY DEF Settable, prepare_terminal_settings
  <2>2. ASSUME Prep \/ PrepFlag PROVE rl' \in Readline /\ mode' \in Settable
    <3>1. UNCHANGED mode
      BY <2>2 DEF Prep, PrepFlag, tty
    <3>2. rl' = rl \/ rl' = [rl EXCEPT !.otio = mode] \/ rl' = [rl EXCEPT !.prepped = TRUE]
      BY <2>2 DEF Prep, PrepFlag, get_tty_settings
    <3>3. rl' \in Readline
      BY <1>2, <3>2 DEF Readline
    <3> QED BY <1>2, <3>1, <3>3
  <2>5. ASSUME PrepRaw PROVE rl' \in Readline /\ mode' \in Settable
    <3>1. rl.otio \in Settable
      BY <1>2 DEF Readline
    <3> QED BY <1>2, <2>1, <2>5, <3>1 DEF PrepRaw, set_tty_settings
  <2>3. ASSUME Deprep PROVE rl' \in Readline /\ mode' \in Settable
    <3>1. rl' \in Readline
      BY <1>2, <2>3 DEF Deprep, Readline
    <3>2. rl.otio \in Settable
      BY <1>2 DEF Readline
    <3> QED BY <1>2, <2>3, <3>1, <3>2 DEF Deprep, set_tty_settings
  <2>4. rl' \in Readline /\ mode' \in Settable
    BY <1>10, <2>2, <2>3, <2>5
  <2> QED BY <1>2, <1>10, <2>4 DEF Prep, PrepRaw, PrepFlag, Deprep, Step, Call, Returns, tty, signals
<1>11. CASE SetSignals \/ SetWinch
  <2>1. rl' \in Readline
    <3>1. \A s \in Signals : rl_set_sighandler(s) \in Dispositions
      BY <1>2 DEF rl_set_sighandler, Readline
    <3>2. CASE UNCHANGED rl
      BY <1>2, <3>2
    <3>3. CASE SetSignals /\ ~rl.set
      <4> DEFINE old == [s \in Signals |-> IF s = "WINCH" THEN rl.old[s] ELSE rl_set_sighandler(s)]
      <4>1. old \in [Signals -> Dispositions]
        BY <1>2, <3>1 DEF Readline
      <4>2. rl' = [rl EXCEPT !.set = TRUE, !.old = old]
        BY <3>3 DEF SetSignals
      <4> HIDE DEF old
      <4> QED BY <1>2, <4>1, <4>2 DEF Readline
    <3>4. CASE SetWinch /\ ~rl.winch
      <4> DEFINE old == [rl.old EXCEPT !["WINCH"] = rl_set_sighandler("WINCH")]
      <4>1. old \in [Signals -> Dispositions]
        BY <1>2, <3>1 DEF Readline, Signals
      <4>2. rl' = [rl EXCEPT !.winch = TRUE, !.old = old]
        BY <3>4 DEF SetWinch
      <4> HIDE DEF old
      <4> QED BY <1>2, <4>1, <4>2 DEF Readline
    <3> QED BY <1>11, <3>2, <3>3, <3>4 DEF SetSignals, SetWinch
  <2>2. handler' \in [Signals -> Dispositions]
    BY <1>2, <1>11 DEF SetSignals, SetWinch, rl_maybe_set_sighandler, Dispositions
  <2> QED BY <1>2, <1>11, <2>1, <2>2 DEF SetSignals, SetWinch, Step, Call, Returns, tty
<1>12. CASE Restore \/ Cleared
  <2>1. rl' \in Readline
    BY <1>2, <1>12 DEF Restore, Cleared, Readline
  <2>2. handler' \in [Signals -> Dispositions]
    BY <1>2, <1>12 DEF Restore, Cleared, Readline
  <2> QED BY <1>2, <1>12, <2>1, <2>2 DEF Restore, Cleared, Step, Call, Returns, tty
<1>13. ASSUME NEW s \in Signals, Deliver(s) PROVE Rest'
  <2>1. rl' \in Readline
    BY <1>2, <1>13 DEF Deliver, Readline
  <2>2. key' \in Keys
    BY <1>2, <1>3, <1>13 DEF Deliver, Noticed, Interrupted, At, Keys
  <2>3. run' \in {"runs", "stopped", "ended", "undefined"}
    BY <1>2, <1>13 DEF Deliver, Noticed, Interrupted, Returns, Call
  <2>4. keep_running' \in BOOLEAN /\ astray' \in BOOLEAN
    BY <1>2, <1>13 DEF Deliver, Entering
  <2>5. pending' \subseteq Signals
    BY <1>2, <1>13 DEF Deliver
  <2> QED BY <1>2, <1>13, <2>1, <2>2, <2>3, <2>4, <2>5 DEF Deliver, tty
<1>14. ASSUME NEW s \in Signals, Arrive(s) PROVE Rest'
  <2>1. sent' \in 0..MaxSignals
    BY <1>2, <1>14, TerminalAssumption DEF Arrive
  <2> QED BY <1>2, <1>14, <2>1 DEF Arrive, process, tty
<1>15. CASE Continue
  BY <1>2, <1>15, TerminalAssumption DEF Continue, signals, Settable
<1>16. CASE Hangup
  <2>1. sent' \in 0..MaxSignals
    BY <1>2, <1>16, TerminalAssumption DEF Hangup
  <2> QED BY <1>2, <1>16, <2>1 DEF Hangup, process, Signals
<1>17. CASE UNCHANGED vars
  BY <1>2, <1>17 DEF vars, process, tty, signals
<1> QED
  BY <1>4, <1>5, <1>6, <1>7, <1>8, <1>9, <1>10, <1>11, <1>12, <1>13, <1>14, <1>15, <1>16, <1>17
  DEF Next, Program

-----------------------------------------------------------------------------
(* The invariant.                                                              *)
(* Readline has the terminal, and what follows needs no more.                  *)
ServedIn ==
  /\ In
  /\ todo # <<>> => todo[1][1] \in AfterIn
  /\ Len(todo) > 1 => Link(todo[1], todo[2])

LEMMA InServes == ServedIn => Need
BY DEF ServedIn, Need, Needs, In, AfterIn, AfterOut, Reading, Link

(* Nobody has it, and what follows needs that.                                 *)
ServedOut ==
  /\ Out
  /\ todo # <<>> => todo[1][1] \in AfterOut \cup {"main", "prep"}

LEMMA OutServes == ServedOut => Need
BY DEF ServedOut, Need, Needs, Out, AfterOut, Reading

LEMMA Returned ==
  ASSUME TypeOK, Stacked(todo), todo # <<>>, Returns
  PROVE  /\ Stacked(todo') /\ run' = run
         /\ todo' # <<>> => Len(todo) > 1 /\ todo'[1] = todo[2]
         /\ Len(todo') > 1 => Link(todo'[1], todo'[2])
BY Returning DEF TypeOK, Returns, Call

LEMMA Called ==
  ASSUME TypeOK, Stacked(todo), todo # <<>>, NEW b, Body(b), Call(b),
         Len(todo) > 1 => IF Len(b) = 1 THEN OnTop(b[1], todo[2]) ELSE Link(b[Len(b)], todo[2])
  PROVE  /\ Stacked(todo') /\ run' = run /\ todo' # <<>> /\ todo'[1] = b[1]
         /\ Len(b) > 1 => Len(todo') > 1 /\ todo'[2] = b[2]
         /\ Len(b) = 1 => /\ Len(todo') = Len(todo)
                          /\ Len(todo) > 1 => todo'[2] = todo[2]
BY Calling DEF TypeOK, Body, Call

LEMMA Top ==
  ASSUME TypeOK, NEW c, At(c)
  PROVE  todo # <<>> /\ todo[1][1] = c /\ Arg = todo[1][2]
BY Arguments DEF TypeOK, At, Arg

(* What most steps leave alone.                                                *)
Keeps ==
  /\ rl'.prepped = rl.prepped /\ rl'.set = rl.set /\ rl'.winch = rl.winch
  /\ rl'.old = rl.old /\ rl'.otio = rl.otio
  /\ UNCHANGED <<mode, user, handler>>

LEMMA Kept ==
  ASSUME Keeps, Terminals, Handlers, run' = run, ~Between \/ UNCHANGED todo
  PROVE  Terminals' /\ Handlers' /\ (In => In') /\ (Out => Out')
<1>1. Terminals'
  BY DEF Keeps, Terminals, Between
<1>2. Handlers'
  BY DEF Keeps, Handlers, Restored
<1>3. (In => In') /\ (Out => Out')
  BY DEF Keeps, In, Out
<1> QED BY <1>1, <1>2, <1>3

(* A call made while keys are read, that reads on or returns.                  *)
LEMMA ReadingReturns ==
  ASSUME TypeOK, Sound, todo # <<>>, todo[1][1] \in Reading, Keeps, Returns
  PROVE  Sound'
<1>1. In
  BY DEF Sound, Need, Needs
<1>2. Stacked(todo') /\ run' = run
  BY Returned DEF Sound
<1>3. Terminals' /\ Handlers' /\ In'
  BY <1>1, <1>2, Kept DEF Sound, Between, Reading
<1>4. Len(todo) > 1 => todo[2][1] \in AfterIn
  BY DEF Sound, Stacked, OnTop, Link, Reading
<1>5. ServedIn'
  BY <1>3, <1>4, Returned DEF Sound, ServedIn
<1>6. Need'
  BY <1>5, InServes, PTL
<1> QED BY <1>2, <1>3, <1>6 DEF Sound

LEMMA ReadingCalls ==
  ASSUME TypeOK, Sound, todo # <<>>, todo[1][1] \in Reading, Keeps,
         NEW b, Body(b), Call(b), b[Len(b)][1] \in Reading, b[1][1] \in Reading \cup {"check"},
         Len(b) > 1 => b[2][1] \in Reading \cup {"check"}
  PROVE  Sound'
<1>1. In
  BY DEF Sound, Need, Needs
<1>2. Len(todo) > 1 => todo[2][1] \in AfterIn
  BY DEF Sound, Stacked, OnTop, Link, Reading
<1>3. Len(todo) > 1 => Link(b[Len(b)], todo[2])
  BY <1>2 DEF Link, Reading, AfterIn
<1>4. Len(todo) > 1 => IF Len(b) = 1 THEN OnTop(b[1], todo[2]) ELSE Link(b[Len(b)], todo[2])
  BY <1>3 DEF OnTop
<1>5. /\ Stacked(todo') /\ run' = run /\ todo' # <<>> /\ todo'[1] = b[1]
      /\ Len(b) > 1 => todo'[2] = b[2]
      /\ Len(b) = 1 => Len(todo') = Len(todo) /\ (Len(todo) > 1 => todo'[2] = todo[2])
  BY <1>4, Called DEF Sound
<1>6. Terminals' /\ Handlers' /\ In'
  BY <1>1, <1>5, Kept DEF Sound, Between, Reading
<1>7. Need'
  <2>1. Len(b) > 1 \/ Len(b) = 1
    <3>1. b \in Seq(Frames) /\ b # <<>>
      BY DEF Body
    <3>2. Len(b) \in Nat /\ Len(b) # 0
      BY <3>1
    <3>3. \A n \in Nat : n # 0 => n > 1 \/ n = 1
      OBVIOUS
    <3> QED BY <3>2, <3>3, Zenon
  <2>2. CASE Len(b) > 1
    BY <1>5, <1>6, <2>2 DEF Need, Needs, In, Reading, AfterOut
  <2>3. CASE Len(b) = 1
    BY <1>2, <1>5, <1>6, <2>3 DEF Need, Needs, In, Reading, AfterIn, AfterOut
  <2> QED BY <2>1, <2>2, <2>3
<1> QED BY <1>5, <1>6, <1>7 DEF Sound

-----------------------------------------------------------------------------
(* Every step keeps it.                                                        *)
LEMMA MainSound ==
  ASSUME TypeOK, Sound, Main
  PROVE  Sound'
<1>1. todo # <<>> /\ todo[1][1] = "main"
  BY Top DEF Main, Step
<1>2. Out
  BY <1>1 DEF Sound, Need, Needs
<1>3. ~(Len(todo) > 1)
  BY <1>1 DEF Sound, Stacked, OnTop, Link
<1>4. PICK b : Body(b) /\ Call(b) /\ b[1][1] \in {"prep", "deprep"}
  <2>1. CASE keep_running
    <3> DEFINE b == readline \o <<<<"command">>, <<"main">>>>
    <3>1. Body(b) /\ b[1][1] = "prep"
      BY ReadlineBody
    <3>2. Call(b)
      BY <2>1 DEF Main
    <3> HIDE DEF b
    <3> QED BY <3>1, <3>2
  <2>2. CASE ~keep_running
    BY <2>2, CleanupBody DEF Main
  <2> QED BY <2>1, <2>2
<1>5. Stacked(todo') /\ run' = run /\ todo' # <<>> /\ todo'[1] = b[1]
  BY <1>1, <1>3, <1>4, Called DEF Sound
<1>6. Terminals' /\ Handlers' /\ Out'
  BY <1>1, <1>2, <1>5, Kept DEF Sound, Main, tty, signals, Keeps, Between
<1>7. Need'
  BY <1>4, <1>5, <1>6 DEF Need, Needs, Out, AfterOut, Reading
<1> QED BY <1>5, <1>6, <1>7 DEF Sound

LEMMA CommandSound ==
  ASSUME TypeOK, Sound, Command
  PROVE  Sound'
<1>1. todo # <<>> /\ todo[1][1] = "command"
  BY Top DEF Command, Step
<1>2. Out
  BY <1>1 DEF Sound, Need, Needs, AfterOut
<1>3. Stacked(todo') /\ run' = run
  BY <1>1, Returned DEF Sound, Command
<1>4. Len(todo) > 1 => todo[2][1] = "main"
  BY <1>1 DEF Sound, Stacked, OnTop, Link
<1>5. Terminals' /\ Handlers' /\ Out'
  BY <1>1, <1>2, <1>3 DEF Sound, Command, Terminals, Between, Handlers, Restored, Out, tty, signals
<1>6. ServedOut'
  BY <1>1, <1>4, <1>5, Returned DEF Sound, Command, ServedOut
<1>7. Need'
  BY <1>6, OutServes, PTL
<1> QED BY <1>3, <1>5, <1>7 DEF Sound

LEMMA ExitSound ==
  ASSUME TypeOK, Sound, Exit
  PROVE  Sound'
<1>1. todo # <<>> /\ todo[1][1] = "exit"
  BY Top DEF Exit, Step
<1>2. Out
  BY <1>1 DEF Sound, Need, Needs, AfterOut
<1>3. Stacked(todo') /\ Terminals' /\ Handlers'
  BY <1>1, <1>2 DEF Exit, Sound, Terminals, Between, Handlers, Restored, Out, tty, signals
<1>4. Need'
  BY <1>1 DEF Exit, Sound, Need, Needs, Restored, Out, In, tty, signals
<1> QED BY <1>3, <1>4 DEF Sound

LEMMA ReadSound ==
  ASSUME TypeOK, Sound, Read \/ Dispatch \/ Search \/ Lastc \/ Searching \/ Select
  PROVE  Sound'
<1>1. todo # <<>> /\ todo[1][1] \in Reading
  BY Top DEF Read, Dispatch, Search, Lastc, Searching, UseFreed, Select, Step, Reading
<1>2. Keeps
  BY DEF TypeOK, Readline, Keeps, tty, signals, Read, Dispatch, Search, Lastc, Searching, UseFreed,
       Select
<1>3. CASE run' = "undefined" /\ UNCHANGED <<todo, rl, handler, mode, user>>
  <2>1. Stacked(todo') /\ Terminals' /\ Handlers'
    BY <1>3 DEF Sound, Terminals, Between, Handlers, Restored
  <2>2. Need'
    BY <1>3 DEF Sound, Need, Needs, Restored, Out, In
  <2> QED BY <2>1, <2>2 DEF Sound
<1>4. CASE Returns
  BY <1>1, <1>2, <1>4, ReadingReturns
<1>5. ASSUME NEW b, Body(b), Call(b), b[Len(b)][1] \in Reading, b[1][1] \in Reading \cup {"check"},
             Len(b) > 1 => b[2][1] \in Reading \cup {"check"}
      PROVE  Sound'
  BY <1>1, <1>2, <1>5, ReadingCalls
<1>6. CASE Read
  <2>1. \/ Call(rl_read_key("READERR") \o <<<<"dispatch">>>>)
        \/ Call(<<<<"dispatch">>>>)
    BY <1>6 DEF Read
  <2>2. CASE Call(rl_read_key("READERR") \o <<<<"dispatch">>>>)
    <3> DEFINE b == rl_read_key("READERR") \o <<<<"dispatch">>>>
    <3>1. Body(b) /\ Len(b) = 4 /\ b[1][1] = "check" /\ b[2][1] = "select" /\ b[4][1] = "dispatch"
      BY ReadBody
    <3>2. Call(b)
      BY <2>2
    <3> HIDE DEF b
    <3> QED BY <1>5, <3>1, <3>2 DEF Reading
  <2>3. CASE Call(<<<<"dispatch">>>>)
    BY <1>5, <2>3, ShortBodies DEF Reading
  <2> QED BY <2>1, <2>2, <2>3
<1>7. CASE Dispatch
  <2>1. \/ Returns
        \/ Call(<<<<"search">>, <<"check">>, <<"read">>>>)
        \/ Call(<<<<"check">>, <<"read">>>>)
    BY <1>7 DEF Dispatch
  <2>2. CASE Call(<<<<"search">>, <<"check">>, <<"read">>>>)
    <3> DEFINE b == <<<<"search">>, <<"check">>, <<"read">>>>
    <3>1. Len(b) = 3 /\ b[1][1] = "search" /\ b[2][1] = "check" /\ b[3][1] = "read"
      OBVIOUS
    <3>2. Body(b) /\ Call(b)
      BY <2>2, ShortBodies
    <3> HIDE DEF b
    <3> QED BY <1>5, <3>1, <3>2 DEF Reading
  <2>3. CASE Call(<<<<"check">>, <<"read">>>>)
    BY <1>5, <2>3, ShortBodies DEF Reading
  <2> QED BY <1>4, <2>1, <2>2, <2>3
<1>8. CASE Search
  <2> DEFINE b == rl_read_key("EOF") \o <<<<"lastc">>, <<"check">>, <<"searching">>>>
  <2>1. Body(b) /\ Len(b) = 6 /\ b[1][1] = "check" /\ b[2][1] = "select" /\ b[6][1] = "searching"
    BY SearchBody
  <2>2. Call(b)
    BY <1>8 DEF Search
  <2> HIDE DEF b
  <2> QED BY <1>5, <2>1, <2>2 DEF Reading
<1>9. CASE Lastc \/ Select
  <2>1. Returns \/ UseFreed("lastc")
    BY <1>9 DEF Lastc, Select
  <2> QED BY <1>3, <1>4, <2>1 DEF UseFreed, tty, signals
<1>10. CASE Searching
  <2>1. \/ Returns
        \/ Call(<<<<"search">>>>)
        \/ UseFreed("searching")
    BY <1>10 DEF Searching
  <2>2. CASE Call(<<<<"search">>>>)
    BY <1>5, <2>2, ShortBodies DEF Reading
  <2> QED BY <1>3, <1>4, <2>1, <2>2 DEF UseFreed, tty, signals
<1> QED BY <1>6, <1>7, <1>8, <1>9, <1>10

LEMMA CheckSound ==
  ASSUME TypeOK, Sound, Check, ~astray'
  PROVE  Sound'
<1>1. todo # <<>> /\ todo[1][1] = "check"
  BY Top DEF Check, Step
<1>2. Keeps
  BY DEF TypeOK, Readline, Keeps, tty, signals, Check
<1>3. Len(todo) > 1 => OnTop(todo[1], todo[2])
  BY DEF Sound, Stacked
<1>4. CASE Returns
  <2>1. Stacked(todo') /\ run' = run
    BY <1>1, <1>4, Returned DEF Sound
  <2>2. Terminals' /\ Handlers' /\ (In => In')
    BY <1>1, <1>2, <2>1, Kept DEF Sound, Between
  <2> SUFFICES Need'
    BY <2>1, <2>2 DEF Sound
  <2>3. CASE todo' = <<>>
    BY <2>3 DEF Need
  <2>4. CASE todo' # <<>>
    <3>1. Len(todo) > 1 /\ todo'[1] = todo[2]
      BY <1>1, <1>4, <2>4, Returned DEF Sound
    <3>2. CASE todo[2][1] \in {"clear", "set", "deprep"}
      <4>1. Needs(todo[2][1])
        BY <1>1, <3>1, <3>2 DEF Sound, Need, Needs, AfterOut, Reading
      <4>2. \A c \in {"clear", "set", "deprep"} : Needs(c) => Needs(c)'
        BY <1>2 DEF Needs, Keeps, Out, In, AfterOut, Reading
      <4>3. ASSUME NEW c \in {"clear", "set", "deprep"}, c = todo[2][1] PROVE Need'
        BY <3>1, <4>1, <4>2, <4>3 DEF Need
      <4> QED BY <3>2, <4>3
    <3>3. CASE todo[2][1] \notin {"clear", "set", "deprep"}
      <4>1. In
        BY <1>1, <3>1, <3>3 DEF Sound, Need
      <4>2. todo[2][1] \in AfterIn
        BY <1>1, <1>3, <3>1, <3>3 DEF OnTop, Link
      <4>3. ServedIn'
        BY <1>1, <1>4, <2>2, <3>1, <4>1, <4>2, Returned DEF Sound, ServedIn
      <4> QED BY <4>3, InServes, PTL
    <3> QED BY <3>2, <3>3
  <2> QED BY <2>3, <2>4
<1>5. CASE rl.caught \notin {None, "WINCH"} /\ Call(<<<<"handle", rl.caught>>>>)
  <2> DEFINE b == <<<<"handle", rl.caught>>>>
  <2>1. Body(b) /\ Len(b) = 1 /\ b[1] = <<"handle", rl.caught>>
    BY <1>5, ShortBodies DEF TypeOK, Readline
  <2>2. Call(b)
    BY <1>5
  <2> HIDE DEF b
  <2>3. Len(todo) > 1 => todo[2][1] # "clear"
    BY <1>5 DEF Check
  <2>4. Len(todo) > 1 => OnTop(b[1], todo[2])
    BY <1>1, <1>3, <2>1, <2>3 DEF OnTop, Link
  <2>5. Stacked(todo') /\ run' = run /\ todo'[1] = b[1]
    BY <1>1, <2>1, <2>2, <2>4, Called DEF Sound
  <2>6. Terminals' /\ Handlers'
    BY <1>1, <1>2, <2>5, Kept DEF Sound, Between
  <2>7. Need'
    BY <2>1, <2>5 DEF Need, Needs, AfterOut, Reading
  <2> QED BY <2>5, <2>6, <2>7 DEF Sound
<1> QED BY <1>4, <1>5 DEF Check, Returns

LEMMA HandleSound ==
  ASSUME TypeOK, Sound, Handle
  PROVE  Sound'
<1>1. todo # <<>> /\ todo[1][1] = "handle" /\ Arg \in Signals
  BY Top, Arguments DEF Handle, Step, TypeOK, Arg
<1>2. Keeps
  BY DEF TypeOK, Readline, Keeps, tty, Handle
<1>3. PICK b : /\ Body(b) /\ Call(b) /\ Len(b) > 1 /\ b[1] = <<"deprep">>
               /\ b[Len(b)] = <<"set">>
  <2> DEFINE again == <<<<"kill", Arg>>>> \o rl_reset_after_signal
             b == rl_cleanup_after_signal \o <<<<"unblock", mask>>>> \o again
             c == rl_cleanup_after_signal \o again
  <2>1. /\ Body(b) /\ Len(b) = 6 /\ b[1] = <<"deprep">> /\ b[6] = <<"set">>
        /\ Body(c) /\ Len(c) = 5 /\ c[1] = <<"deprep">> /\ c[5] = <<"set">>
    BY <1>1, HandleBody DEF TypeOK
  <2>2. Call(b) \/ Call(c)
    BY DEF Handle
  <2> HIDE DEF b, c
  <2>3. CASE Call(b)
    <3>1. Len(b) > 1 /\ b[Len(b)] = <<"set">>
      BY <2>1
    <3> QED BY <2>1, <2>3, <3>1, Zenon
  <2>4. CASE Call(c)
    <3>1. Len(c) > 1 /\ c[Len(c)] = <<"set">>
      BY <2>1
    <3> QED BY <2>1, <2>4, <3>1, Zenon
  <2> QED BY <2>2, <2>3, <2>4
<1>4. Len(todo) > 1 => Link(b[Len(b)], todo[2])
  BY <1>1, <1>3 DEF Sound, Stacked, OnTop, Link
<1>5. Stacked(todo') /\ run' = run /\ todo'[1] = b[1]
  BY <1>1, <1>3, <1>4, Called DEF Sound
<1>6. Terminals' /\ Handlers'
  BY <1>1, <1>2, <1>5, Kept DEF Sound, Between
<1>7. Need'
  BY <1>3, <1>5 DEF Need, Needs, AfterOut, Reading
<1> QED BY <1>5, <1>6, <1>7 DEF Sound

LEMMA ResentSound ==
  ASSUME TypeOK, Sound, Unblock \/ Kill
  PROVE  Sound'
<1>1. todo # <<>> /\ todo[1][1] \in {"unblock", "kill"} /\ Returns
  BY Top DEF Unblock, Kill, Step
<1>2. Keeps
  BY DEF Keeps, tty, Unblock, Kill
<1>3. Out
  BY <1>1 DEF Sound, Need, Needs, AfterOut
<1>4. Stacked(todo') /\ run' = run
  BY <1>1, Returned DEF Sound
<1>5. Terminals' /\ Handlers' /\ Out'
  BY <1>1, <1>2, <1>3, <1>4, Kept DEF Sound, Between
<1>6. Len(todo) > 1 => todo[2][1] \in {"kill", "prep"}
  BY <1>1 DEF Sound, Stacked, OnTop, Link
<1>7. ServedOut'
  BY <1>1, <1>5, <1>6, Returned DEF Sound, ServedOut, AfterOut
<1>8. Need'
  BY <1>7, OutServes, PTL
<1> QED BY <1>4, <1>5, <1>8 DEF Sound

LEMMA PrepSound ==
  ASSUME TypeOK, Sound, Prep, ~hung
  PROVE  Sound'
<1>1. todo # <<>> /\ todo[1][1] = "prep"
  BY Top DEF Prep, Step
<1>2. Out
  BY <1>1 DEF Sound, Need, Needs
<1>3. Call(<<<<"raw">>>>) /\ UNCHANGED <<mode, user, handler>> /\ rl' = [rl EXCEPT !.otio = mode]
  BY <1>2, ~hung DEF Prep, Out, get_tty_settings, tty, signals
<1>4. /\ rl'.otio = mode /\ rl'.prepped = FALSE /\ rl'.set = FALSE /\ rl'.winch = FALSE
      /\ rl'.old = rl.old
  BY <1>2, <1>3 DEF TypeOK, Readline, Out
<1>5. mode = user /\ run = "runs"
  BY <1>1, <1>2 DEF Sound, Terminals, Between, Out, Prep, Step
<1>6. Body(<<<<"raw">>>>) /\ (Len(todo) > 1 => OnTop(<<"raw">>, todo[2]))
  BY <1>1, ShortBodies DEF Sound, Stacked, OnTop, Link, Reading
<1>7. Stacked(todo') /\ run' = run /\ todo'[1] = <<"raw">>
  BY <1>1, <1>3, <1>6, Called DEF Sound
<1>8. Terminals'
  BY <1>3, <1>4, <1>5 DEF Terminals
<1>9. Handlers'
  BY <1>2, <1>3, <1>4 DEF Sound, Handlers, Restored, Out
<1>10. Need'
  BY <1>3, <1>4, <1>5, <1>7 DEF Need, Needs, Out, AfterOut, Reading
<1> QED BY <1>7, <1>8, <1>9, <1>10 DEF Sound

LEMMA PrepRawSound ==
  ASSUME TypeOK, Sound, PrepRaw, ~hung
  PROVE  Sound'
<1>1. todo # <<>> /\ todo[1][1] = "raw"
  BY Top DEF PrepRaw, Step
<1>2. Out /\ rl.otio = user
  BY <1>1 DEF Sound, Need, Needs
<1>3. /\ Call(<<<<"flag">>>>) /\ UNCHANGED <<rl, user, handler>>
      /\ mode' = prepare_terminal_settings(user)
  BY <1>2, ~hung DEF PrepRaw, set_tty_settings, signals
<1>4. run = "runs"
  BY DEF PrepRaw, Step
<1>5. Body(<<<<"flag">>>>) /\ (Len(todo) > 1 => OnTop(<<"flag">>, todo[2]))
  BY <1>1, ShortBodies DEF Sound, Stacked, OnTop, Link, Reading
<1>6. Stacked(todo') /\ run' = run /\ todo' # <<>> /\ todo'[1] = <<"flag">>
  BY <1>1, <1>3, <1>5, Called DEF Sound
<1>7. Terminals'
  BY <1>2, <1>3, <1>4, <1>6 DEF Terminals, Between, Out
<1>8. Handlers'
  BY <1>3 DEF Sound, Handlers, Restored
<1>9. Need'
  BY <1>2, <1>3, <1>4, <1>6 DEF Need, Needs, Out, AfterOut, Reading
<1> QED BY <1>6, <1>7, <1>8, <1>9 DEF Sound

LEMMA PrepFlagSound ==
  ASSUME TypeOK, Sound, PrepFlag
  PROVE  Sound'
<1>1. todo # <<>> /\ todo[1][1] = "flag"
  BY Top DEF PrepFlag, Step
<1>2. Out /\ rl.otio = user /\ mode = prepare_terminal_settings(user)
  BY <1>1 DEF Sound, Need, Needs
<1>3. Call(<<<<"check">>>>) /\ UNCHANGED <<mode, user, handler>>
  BY DEF PrepFlag, tty, signals
<1>4. /\ rl'.prepped = TRUE /\ rl'.otio = user /\ rl'.set = FALSE /\ rl'.winch = FALSE
      /\ rl'.old = rl.old
  BY <1>2 DEF PrepFlag, TypeOK, Readline, Out
<1>5. Len(todo) > 1 => todo[2][1] = "set"
  BY <1>1 DEF Sound, Stacked, OnTop, Link
<1>6. Body(<<<<"check">>>>)
  BY ShortBodies
<1>7. Len(todo) > 1 => OnTop(<<"check">>, todo[2])
  BY <1>5 DEF OnTop, Link, AfterIn
<1>8. /\ Stacked(todo') /\ run' = run /\ todo'[1] = <<"check">>
      /\ Len(todo') = Len(todo) /\ (Len(todo) > 1 => todo'[2] = todo[2])
  BY <1>1, <1>3, <1>6, <1>7, Called DEF Sound
<1>9. Terminals'
  BY <1>2, <1>3, <1>4, <1>8 DEF Terminals, PrepFlag, Step
<1>10. Handlers'
  BY <1>2, <1>3, <1>4 DEF Sound, Handlers, Restored, Out
<1>11. Need'
  <2>1. Needs("set")' /\ Needs("check")'
    BY <1>4 DEF Needs, AfterOut, Reading
  <2>2. todo'[1][1] = "check" /\ (Len(todo') > 1 => todo'[2][1] = "set")
    BY <1>5, <1>8
  <2> QED BY <2>1, <2>2 DEF Need
<1> QED BY <1>8, <1>9, <1>10, <1>11 DEF Sound

LEMMA DeprepSound ==
  ASSUME TypeOK, Sound, Deprep, ~hung
  PROVE  Sound'
<1>1. todo # <<>> /\ todo[1][1] = "deprep"
  BY Top DEF Deprep, Step
<1>2. Len(todo) > 1 => todo[2][1] = "clear"
  BY <1>1 DEF Sound, Stacked, OnTop, Link
<1>3. CASE ~rl.prepped
  <2>1. Returns /\ UNCHANGED <<mode, rl, user, handler>>
    BY <1>3 DEF Deprep, signals
  <2>2. Stacked(todo') /\ run' = run
    BY <1>1, <2>1, Returned DEF Sound
  <2>3. Terminals' /\ Handlers'
    BY <1>1, <2>1, <2>2, Kept DEF Sound, Keeps, Between
  <2>4. todo' # <<>> => todo'[1][1] = "clear"
    BY <1>1, <1>2, <2>1, Returned DEF Sound
  <2>5. Need'
    BY <1>3, <2>1, <2>4 DEF Need, Needs, AfterOut, Reading
  <2> QED BY <2>2, <2>3, <2>5 DEF Sound
<1>4. CASE rl.prepped
  <2>1. /\ Call(<<<<"check">>>>) /\ UNCHANGED <<user, handler>>
        /\ mode' = rl.otio /\ rl' = [rl EXCEPT !.prepped = FALSE]
    BY <1>4, ~hung DEF Deprep, set_tty_settings, signals
  <2>2. /\ rl'.prepped = FALSE /\ rl'.otio = rl.otio /\ rl'.set = rl.set /\ rl'.winch = rl.winch
        /\ rl'.old = rl.old
    BY <2>1 DEF TypeOK, Readline
  <2>3. Body(<<<<"check">>>>)
    BY ShortBodies
  <2>4. Len(todo) > 1 => OnTop(<<"check">>, todo[2])
    BY <1>2 DEF OnTop
  <2>5. /\ Stacked(todo') /\ run' = run /\ todo'[1] = <<"check">>
        /\ Len(todo') = Len(todo) /\ (Len(todo) > 1 => todo'[2] = todo[2])
    BY <1>1, <2>1, <2>3, <2>4, Called DEF Sound
  <2>6. Terminals'
    BY <1>4, <2>1, <2>2, <2>5 DEF Sound, Terminals
  <2>7. Handlers'
    BY <1>4, <2>1, <2>2 DEF Sound, Handlers, Restored
  <2>8. Need'
    BY <1>2, <2>2, <2>5 DEF Need, Needs, AfterOut, Reading
  <2> QED BY <2>5, <2>6, <2>7, <2>8 DEF Sound
<1> QED BY <1>3, <1>4 DEF TypeOK, Readline

LEMMA SetSignalsSound ==
  ASSUME TypeOK, Sound, SetSignals
  PROVE  Sound'
<1>1. todo # <<>> /\ todo[1][1] = "set"
  BY Top DEF SetSignals, Step
<1>2. rl.prepped /\ rl.set = rl.winch
  BY <1>1 DEF Sound, Need, Needs
<1>3. Len(todo) > 1 => OnTop(<<"setwinch">>, todo[2])
  BY <1>1 DEF Sound, Stacked, OnTop, Link
<1>4. Body(<<<<"setwinch">>>>) /\ Call(<<<<"setwinch">>>>)
  BY ShortBodies DEF SetSignals
<1>5. Stacked(todo') /\ run' = run /\ todo'[1] = <<"setwinch">>
  BY <1>1, <1>3, <1>4, Called DEF Sound
<1>6. CASE rl.set
  <2>1. Keeps
    BY <1>6 DEF SetSignals, Keeps, tty
  <2>2. Terminals' /\ Handlers'
    BY <1>1, <1>5, <2>1, Kept DEF Sound, Between
  <2>3. Need'
    BY <1>2, <1>5, <1>6, <2>1 DEF Need, Needs, Keeps, AfterOut, Reading
  <2> QED BY <1>5, <2>2, <2>3 DEF Sound
<1>7. CASE ~rl.set
  <2> DEFINE old == [s \in Signals |-> IF s = "WINCH" THEN rl.old[s] ELSE rl_set_sighandler(s)]
  <2>1. /\ rl' = [rl EXCEPT !.set = TRUE, !.old = old]
        /\ handler' = [s \in Signals |-> IF s = "WINCH" THEN handler[s]
                                         ELSE rl_maybe_set_sighandler(s, "readline")]
        /\ UNCHANGED <<mode, user>>
    BY <1>7 DEF SetSignals, tty
  <2>2. \A s \in Taken : /\ handler[s] \in Own /\ rl_set_sighandler(s) = handler[s]
                         /\ s = "INT" => handler[s] = "app"
    BY <1>7 DEF Sound, Handlers, Restored, Own, rl_set_sighandler
  <2>3. \A s \in Taken : /\ old[s] = handler[s]
                         /\ handler'[s] = IF handler[s] = "ignore" THEN "ignore" ELSE "readline"
    BY <2>1, <2>2 DEF Taken, rl_maybe_set_sighandler
  <2>4. handler'["WINCH"] = handler["WINCH"]
    BY <2>1 DEF Signals
  <2> HIDE DEF old
  <2>5. /\ rl'.prepped /\ rl'.set /\ rl'.old = old /\ rl'.winch = rl.winch /\ rl'.otio = rl.otio
    BY <1>2, <2>1 DEF TypeOK, Readline
  <2>6. "INT" \in Taken
    BY DEF Taken, Signals
  <2>7. Handlers'
    <3>1. rl.winch = FALSE
      BY <1>2, <1>7 DEF TypeOK, Readline
    <3>2. \A s \in Taken : /\ rl'.old[s] \in Own
                           /\ rl'.old[s] = "ignore" => handler'[s] = "ignore"
                           /\ handler'[s] = IF rl'.old[s] = "ignore" THEN "ignore" ELSE "readline"
      BY <2>2, <2>3, <2>5
    <3>3. rl'.old["INT"] = "app"
      BY <2>2, <2>3, <2>5, <2>6
    <3>4. handler'["WINCH"] \in Own
      BY <2>4, <3>1 DEF Sound, Handlers
    <3> QED BY <2>5, <3>1, <3>2, <3>3, <3>4 DEF Handlers
  <2>8. Terminals'
    BY <1>2, <1>5, <2>1, <2>5 DEF Sound, Terminals
  <2>9. Need'
    BY <1>5, <2>5 DEF Need, Needs, AfterOut, Reading
  <2> QED BY <1>5, <2>7, <2>8, <2>9 DEF Sound
<1> QED BY <1>6, <1>7 DEF TypeOK, Readline

LEMMA SetWinchSound ==
  ASSUME TypeOK, Sound, SetWinch
  PROVE  Sound'
<1>1. todo # <<>> /\ todo[1][1] = "setwinch" /\ Returns
  BY Top DEF SetWinch, Step
<1>2. rl.prepped /\ rl.set
  BY <1>1 DEF Sound, Need, Needs
<1>3. Len(todo) > 1 => todo[2][1] \in AfterIn
  BY <1>1 DEF Sound, Stacked, OnTop, Link
<1>4. Stacked(todo') /\ run' = run
  BY <1>1, Returned DEF Sound
<1>5. Terminals' /\ Handlers' /\ In'
  <2>1. CASE rl.winch
    BY <1>1, <1>2, <1>4, <2>1, Kept DEF SetWinch, tty, Keeps, In, Sound, Between
  <2>2. CASE ~rl.winch
    <3> DEFINE old == [rl.old EXCEPT !["WINCH"] = rl_set_sighandler("WINCH")]
    <3>1. /\ rl' = [rl EXCEPT !.winch = TRUE, !.old = old]
          /\ handler' = [handler EXCEPT !["WINCH"] = rl_maybe_set_sighandler("WINCH", "winch")]
          /\ UNCHANGED <<mode, user>>
      BY <2>2 DEF SetWinch, tty
    <3>2. \A s \in Taken : old[s] = rl.old[s] /\ handler'[s] = handler[s]
      BY <3>1 DEF TypeOK, Readline, Taken
    <3>3. old["WINCH"] \in Own /\ handler'["WINCH"] \in {"winch", "ignore"}
      BY <2>2, <3>1 DEF TypeOK, Readline, Sound, Handlers, Own, rl_set_sighandler,
           rl_maybe_set_sighandler, Signals
    <3> HIDE DEF old
    <3>4. /\ rl'.prepped /\ rl'.set /\ rl'.winch /\ rl'.old = old /\ rl'.otio = rl.otio
      BY <1>2, <3>1 DEF TypeOK, Readline
    <3>5. "INT" \in Taken
      BY DEF Taken, Signals
    <3>6. Handlers'
      BY <1>2, <3>2, <3>3, <3>4, <3>5 DEF Sound, Handlers
    <3>7. Terminals'
      BY <1>2, <1>4, <3>1, <3>4 DEF Sound, Terminals
    <3> QED BY <3>4, <3>6, <3>7 DEF In
  <2> QED BY <2>1, <2>2 DEF TypeOK, Readline
<1>6. ServedIn'
  BY <1>1, <1>3, <1>5, Returned DEF Sound, ServedIn
<1>7. Need'
  BY <1>6, InServes, PTL
<1> QED BY <1>4, <1>5, <1>7 DEF Sound

LEMMA ClearSignalsSound ==
  ASSUME TypeOK, Sound, ClearSignals
  PROVE  Sound'
<1>1. todo # <<>> /\ todo[1][1] = "clear"
  BY Top DEF ClearSignals, Step
<1>2. ~rl.prepped
  BY <1>1 DEF Sound, Need, Needs
<1>3. Keeps
  BY DEF ClearSignals, Keeps, tty, signals
<1>4. Len(todo) > 1 => Link(<<"cleared">>, todo[2]) /\ OnTop(<<"cleared">>, todo[2])
  <2>1. Len(todo) > 1 => todo[2][1] \in AfterOut
    BY <1>1 DEF Sound, Stacked, OnTop, Link
  <2>2. \A g : g[1] \in AfterOut => Link(<<"cleared">>, g)
    BY DEF Link, Reading, AfterOut
  <2> QED BY <2>1, <2>2 DEF OnTop
<1>5. CASE rl.set
  <2> DEFINE b == [i \in DOMAIN Caught |-> <<"restore", Caught[i]>>] \o <<<<"cleared">>>>
  <2>1. Body(b) /\ Len(b) = 6 /\ b[1] = <<"restore", "INT">> /\ b[6] = <<"cleared">>
    BY ClearBody
  <2>2. Call(b)
    BY <1>5 DEF ClearSignals
  <2> HIDE DEF b
  <2>3. Stacked(todo') /\ run' = run /\ todo'[1] = <<"restore", "INT">>
    BY <1>1, <1>4, <2>1, <2>2, Called DEF Sound
  <2>4. Terminals' /\ Handlers'
    BY <1>1, <1>3, <2>3, Kept DEF Sound, Between
  <2>5. Needs("restore")'
    BY <1>2, <1>3, <1>5 DEF Needs, Keeps, AfterOut, Reading
  <2>6. \A k \in 1..5 : "INT" = Caught[k] => k = 1
    BY DEF Caught
  <2>7. Need'
    BY <2>3, <2>5, <2>6 DEF Need
  <2> QED BY <2>3, <2>4, <2>7 DEF Sound
<1>6. CASE ~rl.set
  <2>1. Body(<<<<"cleared">>>>) /\ Call(<<<<"cleared">>>>)
    BY <1>6, ShortBodies DEF ClearSignals
  <2>2. Stacked(todo') /\ run' = run /\ todo'[1] = <<"cleared">>
    BY <1>1, <1>4, <2>1, Called DEF Sound
  <2>3. Terminals' /\ Handlers'
    BY <1>1, <1>3, <2>2, Kept DEF Sound, Between
  <2>4. Needs("cleared")'
    BY <1>2, <1>3 DEF Needs, Keeps, AfterOut, Reading
  <2>5. \A j \in 1..5 : Caught[j] \in Taken
    BY DEF Caught, Taken, Signals
  <2>6. \A j \in 1..5 : Restored(Caught[j])'
    BY <1>3, <1>6, <2>5 DEF Sound, Handlers, Restored, Keeps
  <2>7. Need'
    BY <2>2, <2>4, <2>6 DEF Need
  <2> QED BY <2>2, <2>3, <2>7 DEF Sound
<1> QED BY <1>5, <1>6 DEF TypeOK, Readline

LEMMA RestoreSound ==
  ASSUME TypeOK, Sound, Restore
  PROVE  Sound'
<1>1. /\ todo # <<>> /\ todo[1][1] = "restore" /\ Arg = todo[1][2] /\ Arg \in Taken
      /\ Returns /\ UNCHANGED <<rl, mode, user>>
  BY Top, Arguments DEF Restore, Step, TypeOK, Arg, tty
<1>2. ~rl.prepped /\ rl.set
  BY <1>1 DEF Sound, Need, Needs
<1>3. Stacked(todo') /\ run' = run
  BY <1>1, Returned DEF Sound
<1>4. PICK k \in 1..5 : Arg = Caught[k]
  BY <1>1 DEF Taken, Signals, Caught
<1>5. /\ rl.old[Arg] \in Own /\ (rl.old[Arg] = "ignore" => handler[Arg] = "ignore")
      /\ rl.old["INT"] = "app"
  BY <1>1, <1>2 DEF Sound, Handlers
<1>6. handler' = [handler EXCEPT ![Arg] = IF rl.old[Arg] = "ignore" THEN @ ELSE rl.old[Arg]]
  BY DEF Restore
<1>7. /\ handler'[Arg] = rl.old[Arg]
      /\ \A s \in Signals : s # Arg => handler'[s] = handler[s]
  BY <1>1, <1>5, <1>6 DEF TypeOK, Taken
<1>9. \A j \in 1..k - 1 : Restored(Caught[j]) /\ Caught[j] \in Signals /\ Caught[j] # Arg
  <2>1. \A j \in 1..k - 1 : Restored(Caught[j])
    BY <1>1, <1>4 DEF Sound, Need
  <2>2. \A j \in 1..k - 1 : Caught[j] \in Signals /\ Caught[j] # Arg
    BY <1>4 DEF Caught, Signals
  <2> QED BY <2>1, <2>2
<1>10. \A j \in 1..k : Restored(Caught[j])'
  <2>1. \A j \in 1..k - 1 : Restored(Caught[j])'
    BY <1>7, <1>9 DEF Restored
  <2>2. \A j \in 1..k : j \in 1..k - 1 \/ j = k
    OBVIOUS
  <2>3. Restored(Caught[k])'
    BY <1>4, <1>5, <1>7 DEF Restored
  <2> QED BY <2>1, <2>2, <2>3
<1>11. Terminals'
  BY <1>1, <1>3 DEF Sound, Terminals, Between
<1>12. Handlers'
  <2>1. \A s \in Taken : rl.old[s] = "ignore" => handler'[s] = "ignore"
    BY <1>2, <1>7 DEF Sound, Handlers, Taken
  <2>2. handler'["WINCH"] = handler["WINCH"]
    BY <1>1, <1>7 DEF Taken, Signals
  <2> QED BY <1>1, <1>2, <2>1, <2>2 DEF Sound, Handlers
<1>13. Need'
  <2>1. CASE todo' = <<>>
    BY <2>1 DEF Need
  <2>2. CASE todo' # <<>>
    <3>1. todo'[1] = IF k = 5 THEN <<"cleared">> ELSE <<"restore", Caught[k + 1]>>
      BY <1>1, <1>4, <2>2, Returned DEF Sound, Stacked, OnTop, Link
    <3>2. Needs("restore")' /\ Needs("cleared")'
      BY <1>1, <1>2 DEF Needs, AfterOut, Reading
    <3>3. CASE k = 5
      BY <1>10, <3>1, <3>2, <3>3 DEF Need
    <3>4. CASE k # 5
      <4>1. \A n \in 1..5 : Caught[n] = Caught[k + 1] => n = k + 1
        BY <3>4 DEF Caught
      <4>2. k + 1 - 1 = k
        OBVIOUS
      <4>3. todo'[1][1] = "restore" /\ todo'[1][2] = Caught[k + 1]
        BY <3>1, <3>4
      <4>4. \A n \in 1..5 : todo'[1][2] = Caught[n] => \A j \in 1..n - 1 : Restored(Caught[j])'
        BY <1>10, <4>1, <4>2, <4>3
      <4> QED BY <3>2, <4>3, <4>4 DEF Need
    <3> QED BY <3>3, <3>4
  <2> QED BY <2>1, <2>2
<1> QED BY <1>3, <1>11, <1>12, <1>13 DEF Sound

LEMMA ClearedSound ==
  ASSUME TypeOK, Sound, Cleared
  PROVE  Sound'
<1>1. todo # <<>> /\ todo[1][1] = "cleared" /\ Returns /\ UNCHANGED <<mode, user>>
  BY Top DEF Cleared, Step, tty
<1>2. ~rl.prepped /\ \A j \in 1..5 : Restored(Caught[j])
  BY <1>1 DEF Sound, Need, Needs
<1>3. \A s \in Taken : \E j \in 1..5 : s = Caught[j]
  BY DEF Taken, Signals, Caught
<1>4. /\ rl'.prepped = FALSE /\ rl'.set = FALSE /\ rl'.winch = FALSE /\ rl'.old = rl.old
  BY <1>2 DEF Cleared, TypeOK, Readline
<1>5. /\ \A s \in Taken : handler'[s] = handler[s]
      /\ handler'["WINCH"] = IF rl.winch THEN rl.old["WINCH"] ELSE handler["WINCH"]
  BY DEF Cleared, TypeOK, Taken, Signals
<1>6. Stacked(todo') /\ run' = run
  BY <1>1, Returned DEF Sound
<1>7. Terminals'
  BY <1>1, <1>2, <1>4, <1>6 DEF Sound, Terminals, Between
<1>8. Handlers'
  <2>1. \A s \in Taken : Restored(s)'
    BY <1>2, <1>3, <1>5 DEF Restored
  <2>2. handler'["WINCH"] \in Own
    BY <1>5 DEF Sound, Handlers
  <2> QED BY <1>4, <2>1, <2>2 DEF Handlers
<1>9. Len(todo) > 1 => todo[2][1] \in AfterOut
  BY <1>1 DEF Sound, Stacked, OnTop, Link
<1>10. ServedOut'
  BY <1>1, <1>4, <1>9, Returned DEF Sound, ServedOut, Out
<1>11. Need'
  BY <1>10, OutServes, PTL
<1> QED BY <1>6, <1>7, <1>8, <1>11 DEF Sound

(* A signal that readline has not taken, and that is not ignored, finds the    *)
(* terminal as the user had it, but for the window on the way in.              *)
LEMMA DeliverSound ==
  ASSUME TypeOK, Sound, NEW s \in Signals, Deliver(s), ~astray'
  PROVE  Sound'
<1>1. Keeps
  BY DEF Deliver, Keeps, tty, TypeOK, Readline
<1>2. CASE UNCHANGED todo /\ UNCHANGED run
  <2>1. Terminals' /\ Handlers'
    BY <1>1, <1>2, Kept DEF Sound
  <2>2. Stacked(todo') /\ Need'
    BY <1>1, <1>2 DEF Sound, Need, Needs, Restored, Keeps, Out, In
  <2> QED BY <2>1, <2>2 DEF Sound
<1>3. CASE At("select") /\ Interrupted
  <2>1. todo # <<>> /\ todo[1][1] \in Reading
    BY <1>3, Top DEF Reading
  <2>2. CASE Returns
    BY <1>1, <2>1, <2>2, ReadingReturns
  <2>3. CASE Call(<<<<"check">>, Head(todo)>>)
    <3>1. Head(todo) = <<"select", Arg>> /\ Arg \in {"READERR", "EOF"}
      BY <1>3, Arguments DEF At, Arg, TypeOK
    <3> DEFINE b == <<<<"check">>, <<"select", Arg>>>>
    <3>2. Body(b) /\ Call(b)
      BY <2>3, <3>1, ShortBodies
    <3>3. Len(b) = 2 /\ b[1][1] = "check" /\ b[2][1] = "select"
      OBVIOUS
    <3> HIDE DEF b
    <3> QED BY <1>1, <2>1, <3>2, <3>3, ReadingCalls DEF Reading
  <2> QED BY <1>3, <2>2, <2>3 DEF Interrupted
<1>4. CASE handler[s] = "default" /\ s # "WINCH"
  <2>1. /\ ~Entering(s) /\ UNCHANGED <<todo, rl, handler, mode, user>>
        /\ run' = IF s \in Stops THEN "stopped" ELSE "ended"
    BY <1>4 DEF Deliver, tty
  <2>2. ~rl.prepped
    BY <1>4, <2>1 DEF Entering, Sound, Handlers, Taken
  <2>3. todo # <<>> => todo[1][1] # "flag" /\ (todo[1][1] = "raw" => s \notin Stops)
    <3>1. todo # <<>> => Head(todo) = todo[1]
      BY Arguments DEF TypeOK
    <3> QED BY <2>1, <3>1 DEF Entering, At
  <2>4. Terminals' /\ Handlers'
    BY <2>1, <2>2 DEF Sound, Terminals, Between, Handlers, Restored
  <2>5. Stacked(todo') /\ Need'
    BY <2>1, <2>3 DEF Sound, Need, Needs, Restored, Out, In
  <2> QED BY <2>4, <2>5 DEF Sound
<1> QED BY <1>2, <1>3, <1>4 DEF Deliver, Noticed

LEMMA Surroundings ==
  ASSUME TypeOK, Sound, UNCHANGED <<todo, rl, handler>>,
         UNCHANGED <<run, mode, user>> \/ (run = "stopped" /\ run' = "runs" /\ mode' = user')
  PROVE  Sound'
<1>1. Stacked(todo') /\ Need'
  BY DEF Sound, Need, Needs, Restored, Out, In
<1>2. Terminals' /\ Handlers'
  BY DEF Sound, Terminals, Between, Handlers, Restored
<1> QED BY <1>1, <1>2 DEF Sound

-----------------------------------------------------------------------------
(* What Init establishes.                                                      *)
LEMMA InitSound == Init => Sound
<1> SUFFICES ASSUME Init PROVE Sound
  OBVIOUS
<1>1. todo = <<<<"main">>>> /\ Len(todo) = 1 /\ todo[1][1] = "main"
  BY DEF Init
<1>2. Stacked(todo)
  BY <1>1 DEF Stacked
<1>3. Out
  BY DEF Init, Out
<1>4. Need
  BY <1>1, <1>3 DEF Need, Needs, Reading
<1>5. Terminals
  BY DEF Init, Terminals
<1>6. Handlers
  <2>1. \A s \in Signals : handler[s] \in Own /\ handler["INT"] = "app"
    BY DEF Init, Own, Signals
  <2> QED BY <1>3, <2>1 DEF Handlers, Restored, Out, Taken, Signals
<1> QED BY <1>2, <1>4, <1>5, <1>6 DEF Sound

LEMMA SoundStep == TypeOK /\ (Calm => Sound) /\ [Next]_vars => (Calm => Sound)'
<1> SUFFICES ASSUME TypeOK, Calm => Sound, [Next]_vars, Calm' PROVE Sound'
  OBVIOUS
<1>1. Calm
  BY DEF Calm, TypeOK, Next, Program, vars, tty, signals, process, Main, Command, Exit, Read, Dispatch,
       Search, Lastc, Searching, UseFreed, Check, Handle, Unblock, Kill, Prep, PrepRaw,
       PrepFlag, Deprep, SetSignals, SetWinch, ClearSignals, Restore, Cleared, Deliver, Select,
       Arrive, Continue, Hangup
<1>2. Sound /\ ~hung /\ ~astray'
  BY <1>1 DEF Calm
<1>3. CASE Main
  BY <1>2, <1>3, MainSound
<1>4. CASE Command
  BY <1>2, <1>4, CommandSound
<1>5. CASE Exit
  BY <1>2, <1>5, ExitSound
<1>6. CASE Read \/ Dispatch \/ Search \/ Lastc \/ Searching \/ Select
  BY <1>2, <1>6, ReadSound
<1>7. CASE Check
  BY <1>2, <1>7, CheckSound
<1>8. CASE Handle
  BY <1>2, <1>8, HandleSound
<1>9. CASE Unblock \/ Kill
  BY <1>2, <1>9, ResentSound
<1>10. CASE Prep
  BY <1>2, <1>10, PrepSound
<1>22. CASE PrepRaw
  BY <1>2, <1>22, PrepRawSound
<1>23. CASE PrepFlag
  BY <1>2, <1>23, PrepFlagSound
<1>11. CASE Deprep
  BY <1>2, <1>11, DeprepSound
<1>12. CASE SetSignals
  BY <1>2, <1>12, SetSignalsSound
<1>13. CASE SetWinch
  BY <1>2, <1>13, SetWinchSound
<1>14. CASE ClearSignals
  BY <1>2, <1>14, ClearSignalsSound
<1>15. CASE Restore
  BY <1>2, <1>15, RestoreSound
<1>16. CASE Cleared
  BY <1>2, <1>16, ClearedSound
<1>17. ASSUME NEW s \in Signals, Deliver(s) PROVE Sound'
  BY <1>2, <1>17, DeliverSound
<1>18. ASSUME NEW s \in Signals, Arrive(s) PROVE Sound'
  BY <1>2, <1>18, Surroundings DEF Arrive, process, tty
<1>19. CASE Continue
  BY <1>2, <1>19, Surroundings DEF Continue, signals
<1>20. CASE Hangup
  BY <1>20 DEF Hangup, Calm
<1>21. CASE UNCHANGED vars
  BY <1>2, <1>21, Surroundings DEF vars, process, tty, signals
<1> QED
  BY <1>3, <1>4, <1>5, <1>6, <1>7, <1>8, <1>9, <1>10, <1>11, <1>12, <1>13, <1>14, <1>15, <1>16,
     <1>17, <1>18, <1>19, <1>20, <1>21, <1>22, <1>23 DEF Next, Program

-----------------------------------------------------------------------------
(* The results.                                                                *)

(* Every behaviour is type correct: no call is made with the wrong arguments,  *)
(* however deep the handling of signals nests.                                 *)
THEOREM TypeCorrect == Spec => []TypeOK
<1>1. TypeOK /\ [Next]_vars => TypeOK'
  BY TypeStep
<1> QED BY InitType, <1>1, PTL DEF Spec

(* The inductive invariant holds always.                                       *)
THEOREM Invariance == Spec => []IInv
<1>1. Init => IInv
  BY InitType, InitSound DEF IInv
<1>2. IInv /\ [Next]_vars => IInv'
  BY TypeStep, SoundStep DEF IInv
<1> QED BY <1>1, <1>2, PTL DEF Spec

(* Whoever gets control from readline gets the terminal and the handlers as    *)
(* they were, whatever signals arrive and whatever they are nested in.         *)
THEOREM TerminalComesBack == Spec => []TerminalGivenBack
<1>1. IInv => TerminalGivenBack
  <2> SUFFICES ASSUME IInv, Calm PROVE
        /\ run \in {"stopped", "ended"} => mode = user
        /\ At("command") => /\ mode = user
                            /\ \A s \in Signals : handler[s] \notin {"readline", "winch"}
                            /\ handler["INT"] = "app"
    BY DEF TerminalGivenBack, Calm
  <2>1. TypeOK /\ Sound
    BY DEF IInv
  <2>2. run \in {"stopped", "ended"} => mode = user
    BY <2>1 DEF Sound, Terminals, Between, Need
  <2>3. ASSUME At("command")
        PROVE  /\ mode = user
               /\ \A s \in Signals : handler[s] \notin {"readline", "winch"}
               /\ handler["INT"] = "app"
    <3>1. Out
      BY <2>1, <2>3, Top DEF Sound, Need, Needs, AfterOut
    <3>2. mode = user
      BY <2>1, <2>3, <3>1, Top DEF Sound, Terminals, Between, Out
    <3>3. \A s \in Taken \cup {"WINCH"} : handler[s] \in Own
      BY <2>1, <3>1 DEF Sound, Handlers, Restored, Out
    <3>4. handler["INT"] = "app"
      BY <2>1, <3>1 DEF Sound, Handlers, Restored, Out, Taken, Signals
    <3> QED BY <3>2, <3>3, <3>4 DEF Own, Taken
  <2> QED BY <2>2, <2>3
<1> QED BY <1>1, Invariance, PTL

(* Whenever readline waits for a key the terminal is raw and the handlers are  *)
(* its own, but for the signals the shell was started to ignore.               *)
THEOREM KeysFindReadline == Spec => []ReadyAtTheKey
<1>1. IInv => ReadyAtTheKey
  <2> SUFFICES ASSUME IInv, Calm, At("select") PROVE
        /\ rl.prepped /\ mode = prepare_terminal_settings(rl.otio)
        /\ handler["INT"] = "readline" /\ handler["WINCH"] \in {"winch", "ignore"}
        /\ \A s \in Signals \ {"INT", "WINCH"} :
             handler[s] = IF rl.old[s] = "ignore" THEN "ignore" ELSE "readline"
    BY DEF ReadyAtTheKey, Calm
  <2>1. TypeOK /\ Sound
    BY DEF IInv
  <2>2. In
    BY <2>1, Top DEF Sound, Need, Needs, Reading
  <2>3. rl.prepped /\ mode = prepare_terminal_settings(rl.otio)
    BY <2>1, <2>2 DEF Sound, Terminals, In
  <2>4. /\ \A s \in Taken : handler[s] = IF rl.old[s] = "ignore" THEN "ignore" ELSE "readline"
        /\ rl.old["INT"] = "app" /\ handler["WINCH"] \in {"winch", "ignore"}
    BY <2>1, <2>2 DEF Sound, Handlers, In
  <2>5. handler["INT"] = "readline"
    BY <2>4 DEF Taken, Signals
  <2> QED BY <2>3, <2>4, <2>5 DEF Taken
<1> QED BY <1>1, Invariance, PTL
=============================================================================
