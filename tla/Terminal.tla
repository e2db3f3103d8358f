------------------------------ MODULE Terminal ------------------------------
(* What readline does to the terminal and to the signal handlers around the  *)
(* reading of a line, while signals arrive at any point of it: the loop of   *)
(* main (main.c), readline and its loop over keys (readline.c), the reading  *)
(* of a key (input.c), rl_prep_terminal and rl_deprep_terminal (rltty.c) and *)
(* the handling of signals (signals.c).  Calls nest, and a signal handled in *)
(* one of them makes calls of its own, so what is still to do is a stack of  *)
(* calls: a step takes the first and puts what it calls in its place.        *)
EXTENDS Integers, Sequences

CONSTANTS Modes,       \* settings of the terminal a user or a command makes
          Inherited,   \* signals the shell may have been started to ignore
          MaxSignals   \* bound on the signals that arrive

(* Line editing and echo by the kernel, CR read as NL, C-s and C-q, and C-v. *)
Flags == {"icanon", "echo", "icrnl", "ixon", "lnext"}

ASSUME TerminalAssumption == Modes \subseteq [Flags -> BOOLEAN] /\ MaxSignals \in Nat

Signals == {"INT", "TERM", "HUP", "TSTP", "TTOU", "WINCH"}
Caught  == <<"INT", "TERM", "HUP", "TSTP", "TTOU">>
Stops   == {"TSTP", "TTOU"}
None    == "none"

VARIABLES
  run,           \* the process: runs, stopped, ended, undefined
  todo,          \* calls still to make, the next one first
  mode,          \* settings of the terminal
  user,          \* the settings that are the user's
  hung,          \* the terminal is gone
  rl,            \* readline's own variables
  handler,       \* disposition of each signal
  mask,          \* blocked signals
  pending,       \* signals sent and not delivered
  keep_running,  \* the flag of main's loop
  key,           \* the key just read
  sent,          \* signals that arrived
  astray         \* a signal came in one of the three windows (below)

process == <<run, todo>>
tty     == <<mode, user, hung>>
signals == <<handler, mask, pending, sent>>
vars    == <<process, tty, rl, signals, keep_running, key, astray>>

(* setup_signal_handler; the other dispositions are inherited.               *)
Init ==
  /\ run = "runs" /\ todo = <<<<"main">>>>
  /\ mode \in Modes /\ user = mode /\ hung = FALSE
  /\ rl = [prepped |-> FALSE, otio |-> mode, caught |-> None, set |-> FALSE,
           winch |-> FALSE, old |-> [s \in Signals |-> "default"],
           context |-> None, next |-> None]
  /\ \E I \in SUBSET Inherited :
       handler = [s \in Signals |-> IF s = "INT" THEN "app"
                                    ELSE IF s \in I THEN "ignore" ELSE "default"]
  /\ mask = {} /\ pending = {} /\ sent = 0
  /\ keep_running = TRUE /\ key = None /\ astray = FALSE

(***************************************************************************)
(* The stack.  A pending signal that is not blocked is delivered before    *)
(* the program makes another step.                                         *)
(***************************************************************************)
At(call) == todo # <<>> /\ Head(todo)[1] = call
Arg      == Head(todo)[2]

Step(call) == run = "runs" /\ pending \subseteq mask /\ At(call)
Call(body) == todo' = body \o Tail(todo) /\ UNCHANGED run

Returns == Call(<<>>)

(* What the functions call, one after the other.                             *)
rl_read_key(eof) == <<<<"check">>, <<"select", eof>>, <<"check">>>>
readline_internal == <<<<"check">>, <<"read">>, <<"check">>>>
readline == <<<<"prep">>, <<"set">>>> \o readline_internal \o <<<<"deprep">>, <<"clear">>>>
rl_cleanup_after_signal == <<<<"deprep">>, <<"clear">>>>
rl_reset_after_signal == <<<<"prep">>, <<"set">>>>
cleanup_rickshell == rl_cleanup_after_signal \o <<<<"exit">>>>

(***************************************************************************)
(* main: a line is read and executed until handle_sigint clears the flag.  *)
(***************************************************************************)
Main ==
  /\ Step("main")
  /\ Call(IF keep_running THEN readline \o <<<<"command">>, <<"main">>>> ELSE cleanup_rickshell)
  /\ UNCHANGED <<tty, rl, signals, keep_running, key, astray>>

(* The command may change the terminal's settings (stty).                    *)
Command ==
  /\ Step("command") /\ Returns
  /\ \/ UNCHANGED tty
     \/ \E m \in Modes : mode' = m /\ user' = m /\ UNCHANGED hung
  /\ UNCHANGED <<rl, signals, keep_running, key, astray>>

Exit ==
  /\ Step("exit") /\ run' = "ended"
  /\ UNCHANGED <<todo, tty, rl, signals, keep_running, key, astray>>

(***************************************************************************)
(* readline_internal_charloop, rl_read_key, rl_getc.  A key that a search  *)
(* gives back (rl_execute_next) is read before any other.                  *)
(***************************************************************************)
Read ==
  /\ Step("read")
  /\ IF rl.next = None
     THEN /\ Call(rl_read_key("READERR") \o <<<<"dispatch">>>>)
          /\ UNCHANGED <<rl, key>>
     ELSE /\ Call(<<<<"dispatch">>>>)
          /\ key' = rl.next /\ rl' = [rl EXCEPT !.next = None]
  /\ UNCHANGED <<tty, signals, keep_running, astray>>

(* pselect waits; a terminal that is gone answers with end of file.          *)
Select ==
  /\ Step("select") /\ Returns
  /\ key' \in IF hung THEN {"EOF"} ELSE {"x", "RET", "C-r", "C-g"}
  /\ UNCHANGED <<tty, rl, signals, keep_running, astray>>

(* RET, the end of file and an error end the line; C-r searches.             *)
Dispatch ==
  /\ Step("dispatch")
  /\ CASE key \in {"RET", "EOF", "READERR"} -> Returns /\ UNCHANGED rl
       [] key = "C-r" -> /\ Call(<<<<"search">>, <<"check">>, <<"read">>>>)
                         /\ rl' = [rl EXCEPT !.context = "live"]
       [] OTHER -> Call(<<<<"check">>, <<"read">>>>) /\ UNCHANGED rl
  /\ key' = None
  /\ UNCHANGED <<tty, signals, keep_running, astray>>

(* rl_search_history: _rl_search_getchar stores the key in the search's      *)
(* context, which a SIGINT may have freed while it waited for the key.       *)
Search ==
  /\ Step("search")
  /\ Call(rl_read_key("EOF") \o <<<<"lastc">>, <<"check">>, <<"searching">>>>)
  /\ UNCHANGED <<tty, rl, signals, keep_running, key, astray>>

UseFreed(call) ==
  /\ Step(call) /\ rl.context = "freed"
  /\ run' = "undefined"
  /\ UNCHANGED <<todo, tty, rl, signals, keep_running, key, astray>>

Lastc ==
  \/ UseFreed("lastc")
  \/ /\ Step("lastc") /\ rl.context = "live" /\ Returns
     /\ UNCHANGED <<tty, rl, signals, keep_running, key, astray>>

(* _rl_isearch_dispatch: C-g and the end of file give up, RET ends the       *)
(* search and is the next key, others go on.                                 *)
Searching ==
  \/ UseFreed("searching")
  \/ /\ Step("searching") /\ rl.context = "live"
     /\ CASE key \in {"C-g", "EOF"} -> Returns /\ rl' = [rl EXCEPT !.context = None]
          [] key = "RET" -> Returns /\ rl' = [rl EXCEPT !.context = None, !.next = key]
          [] OTHER -> Call(<<<<"search">>>>) /\ UNCHANGED rl
     /\ key' = None
     /\ UNCHANGED <<tty, signals, keep_running, astray>>

(***************************************************************************)
(* RL_CHECK_SIGNALS and _rl_handle_signal: the terminal and the handlers   *)
(* are given back, the signal is sent again, and readline takes both over  *)
(* once more.  A signal handled while rl_deprep_terminal, called at the    *)
(* end of a line, releases SIGINT takes them over too late to be undone.   *)
(***************************************************************************)
Check ==
  /\ Step("check")
  /\ rl' = [rl EXCEPT !.caught = None]
  /\ Call(IF rl.caught \in {None, "WINCH"} THEN <<>> ELSE <<<<"handle", rl.caught>>>>)
  /\ astray' = (astray \/ (/\ rl.caught \notin {None, "WINCH"}
                           /\ Len(todo) > 1 /\ todo[2][1] = "clear"))
  /\ UNCHANGED <<tty, signals, keep_running, key>>

(* SIGINT gives up the line, and an incremental search with it.              *)
rl_free_line_state == IF Arg = "INT" /\ rl.context = "live" THEN "freed" ELSE rl.context

(* The signals after which TTOU is blocked name the old mask as the set to   *)
(* unblock, where they mean the set they blocked (signals.c:282).            *)
Handle ==
  /\ Step("handle")
  /\ rl' = [rl EXCEPT !.next = None, !.context = rl_free_line_state]
  /\ LET again == <<<<"kill", Arg>>>> \o rl_reset_after_signal IN
     IF Arg \in Stops \cup {"INT"}
     THEN /\ mask' = mask \cup {"TTOU"}
          /\ Call(rl_cleanup_after_signal \o <<<<"unblock", mask>>>> \o again)
     ELSE /\ Call(rl_cleanup_after_signal \o again) /\ UNCHANGED mask
  /\ UNCHANGED <<tty, handler, pending, sent, keep_running, key, astray>>

Unblock ==
  /\ Step("unblock") /\ Returns
  /\ mask' = mask \ Arg
  /\ UNCHANGED <<tty, rl, handler, pending, sent, keep_running, key, astray>>

Kill_nothing ==        \* mutant: the signal is not sent again
  /\ Step("kill") /\ Returns
  /\ UNCHANGED <<tty, rl, signals, keep_running, key, astray>>

Kill ==
  /\ Step("kill") /\ Returns
  /\ pending' = pending \cup {Arg}
  /\ UNCHANGED <<tty, rl, handler, mask, sent, keep_running, key, astray>>

(***************************************************************************)
(* rl_prep_terminal and rl_deprep_terminal: each ends by releasing SIGINT, *)
(* which checks for signals.                                               *)
(***************************************************************************)
(* What tcgetattr answers, if it does, and what tcsetattr leaves.            *)
get_tty_settings    == IF hung THEN {} ELSE {mode}
set_tty_settings(m) == mode' = m

(* readline reads keys one by one, and as they are typed.                    *)
prepare_terminal_settings(oldtio) == [f \in Flags |-> f = "ixon" /\ oldtio[f]]

(* A signal at its default stops or ends the shell between any two of these  *)
(* steps: the settings are asked for, changed, and the flag is set.          *)
Prep ==
  /\ Step("prep")
  /\ IF rl.prepped
     THEN Returns /\ UNCHANGED rl
     ELSE \/ get_tty_settings = {} /\ Call(<<<<"check">>>>) /\ UNCHANGED rl
          \/ \E tio \in get_tty_settings :
               Call(<<<<"raw">>>>) /\ rl' = [rl EXCEPT !.otio = tio]
  /\ UNCHANGED <<tty, signals, keep_running, key, astray>>

PrepRaw ==
  /\ Step("raw")
  /\ IF hung THEN Call(<<<<"check">>>>) /\ UNCHANGED mode
     ELSE Call(<<<<"flag">>>>) /\ set_tty_settings(prepare_terminal_settings(rl.otio))
  /\ UNCHANGED <<user, hung, rl, signals, keep_running, key, astray>>

PrepFlag ==
  /\ Step("flag") /\ Call(<<<<"check">>>>)
  /\ rl' = [rl EXCEPT !.prepped = TRUE]
  /\ UNCHANGED <<tty, signals, keep_running, key, astray>>

Deprep_keepsFlag ==    \* mutant: terminal_prepped is not cleared
  /\ Step("deprep")
  /\ IF ~rl.prepped THEN Returns /\ UNCHANGED mode
     ELSE Call(<<<<"check">>>>) /\ mode' = IF hung THEN mode ELSE rl.otio
  /\ UNCHANGED <<user, hung, rl, signals, keep_running, key, astray>>

(* The flag is cleared after the settings are back: a signal between the two *)
(* finds the settings the user's, as one does that comes after both.         *)
Deprep ==
  /\ Step("deprep")
  /\ IF ~rl.prepped
     THEN Returns /\ UNCHANGED <<mode, rl>>
     ELSE /\ Call(<<<<"check">>>>)
          /\ IF hung THEN UNCHANGED <<mode, rl>>
             ELSE set_tty_settings(rl.otio) /\ rl' = [rl EXCEPT !.prepped = FALSE]
  /\ UNCHANGED <<user, hung, signals, keep_running, key, astray>>

(***************************************************************************)
(* rl_set_signals, with every signal it takes blocked, then SIGWINCH.      *)
(***************************************************************************)
(* rl_set_sighandler does not remember readline's own handler as the old one.*)
rl_set_sighandler(s) ==
  IF handler[s] = "readline" THEN rl.old[s] ELSE handler[s]

(* rl_maybe_set_sighandler puts an ignored signal back.                      *)
rl_maybe_set_sighandler(s, new) ==
  IF rl_set_sighandler(s) = "ignore" THEN "ignore" ELSE new

SetSignals ==
  /\ Step("set") /\ Call(<<<<"setwinch">>>>)
  /\ IF rl.set THEN UNCHANGED <<rl, handler>>
     ELSE /\ rl' = [rl EXCEPT !.set = TRUE,
                    !.old = [s \in Signals |-> IF s = "WINCH" THEN @[s] ELSE rl_set_sighandler(s)]]
          /\ handler' = [s \in Signals |-> IF s = "WINCH" THEN handler[s]
                                           ELSE rl_maybe_set_sighandler(s, "readline")]
  /\ UNCHANGED <<tty, mask, pending, sent, keep_running, key, astray>>

SetWinch ==
  /\ Step("setwinch") /\ Returns
  /\ IF rl.winch THEN UNCHANGED <<rl, handler>>
     ELSE /\ rl' = [rl EXCEPT !.winch = TRUE, !.old["WINCH"] = rl_set_sighandler("WINCH")]
          /\ handler' = [handler EXCEPT !["WINCH"] = rl_maybe_set_sighandler("WINCH", "winch")]
  /\ UNCHANGED <<tty, mask, pending, sent, keep_running, key, astray>>

(* rl_clear_signals restores one handler after the other.                    *)
ClearSignals ==
  /\ Step("clear")
  /\ Call(IF rl.set THEN [i \in DOMAIN Caught |-> <<"restore", Caught[i]>>] \o <<<<"cleared">>>>
          ELSE <<<<"cleared">>>>)
  /\ UNCHANGED <<tty, rl, signals, keep_running, key, astray>>

Restore_butTERM ==     \* mutant: one of the list is forgotten
  /\ Step("restore") /\ Returns
  /\ handler' = IF Arg = "TERM" THEN handler
                ELSE [handler EXCEPT ![Arg] = IF rl.old[Arg] = "ignore" THEN @ ELSE rl.old[Arg]]
  /\ UNCHANGED <<tty, rl, mask, pending, sent, keep_running, key, astray>>

(* rl_maybe_restore_sighandler.                                              *)
Restore ==
  /\ Step("restore") /\ Returns
  /\ handler' = [handler EXCEPT ![Arg] = IF rl.old[Arg] = "ignore" THEN @ ELSE rl.old[Arg]]
  /\ UNCHANGED <<tty, rl, mask, pending, sent, keep_running, key, astray>>

Cleared ==
  /\ Step("cleared") /\ Returns
  /\ rl' = [rl EXCEPT !.set = FALSE, !.winch = FALSE]
  /\ handler' = [handler EXCEPT !["WINCH"] = IF rl.winch THEN rl.old["WINCH"] ELSE @]
  /\ UNCHANGED <<tty, mask, pending, sent, keep_running, key, astray>>

(***************************************************************************)
(* Delivery of a signal, with what each disposition does.                  *)
(***************************************************************************)
(* rl_getc: an interrupted pselect ends the read for TERM and HUP, and is    *)
(* made again after a check for the others.                                  *)
Interrupted ==
  IF rl'.caught \in {"TERM", "HUP"}
  THEN key' = Arg /\ Returns
  ELSE Call(<<<<"check">>, Head(todo)>>) /\ UNCHANGED key

Noticed ==
  \/ UNCHANGED <<run, todo, key>>           \* before pselect waits, or elsewhere
  \/ At("select") /\ Interrupted

(* Readline has the terminal and not yet the handlers, or it knows the       *)
(* settings to give back and the user, while the shell is stopped, makes     *)
(* others.                                                                   *)
Entering(s) ==
  \/ At("flag")
  \/ rl.prepped /\ ~rl.set
  \/ At("raw") /\ s \in Stops

Deliver(s) ==
  /\ run = "runs" /\ s \in pending \ mask
  /\ pending' = pending \ {s}
  /\ \/ /\ handler[s] \in {"readline", "winch"}
        /\ rl' = [rl EXCEPT !.caught = s]
        /\ Noticed /\ UNCHANGED <<keep_running, astray>>
     \/ /\ handler[s] = "app"               \* handle_sigint
        /\ keep_running' = FALSE
        /\ UNCHANGED rl
        /\ Noticed /\ UNCHANGED astray
     \/ /\ handler[s] = "ignore" \/ (handler[s] = "default" /\ s = "WINCH")
        /\ UNCHANGED <<run, todo, rl, keep_running, key, astray>>
     \/ /\ handler[s] = "default" /\ s # "WINCH"
        /\ run' = IF s \in Stops THEN "stopped" ELSE "ended"
        /\ astray' = (astray \/ Entering(s))
        /\ UNCHANGED <<todo, rl, keep_running, key>>
  /\ UNCHANGED <<tty, handler, mask, sent>>

(***************************************************************************)
(* The environment.                                                        *)
(***************************************************************************)
Arrive(s) ==
  /\ run \in {"runs", "stopped"} /\ sent < MaxSignals
  /\ pending' = pending \cup {s} /\ sent' = sent + 1
  /\ UNCHANGED <<process, tty, rl, handler, mask, keep_running, key, astray>>

(* The user's shell brings a stopped shell back, with settings of its own.   *)
Continue ==
  /\ run = "stopped" /\ run' = "runs"
  /\ \E m \in Modes : mode' = m /\ user' = m
  /\ UNCHANGED <<todo, hung, rl, signals, keep_running, key, astray>>

Hangup ==
  /\ run \in {"runs", "stopped"} /\ sent < MaxSignals
  /\ hung' = TRUE
  /\ pending' = pending \cup {"HUP"} /\ sent' = sent + 1
  /\ UNCHANGED <<process, mode, user, rl, handler, mask, keep_running, key, astray>>

Program ==
  \/ Main \/ Command \/ Exit \/ Read \/ Dispatch \/ Search \/ Lastc \/ Searching
  \/ Check \/ Handle \/ Unblock \/ Kill \/ Prep \/ PrepRaw \/ PrepFlag \/ Deprep
  \/ SetSignals \/ SetWinch \/ ClearSignals \/ Restore \/ Cleared
  \/ \E s \in Signals : Deliver(s)

Next ==
  \/ Program \/ Select
  \/ \E s \in Signals : Arrive(s)
  \/ Continue \/ Hangup

(* The shell runs and the kernel delivers; nobody need type or send.         *)
Fairness == WF_vars(Program)

Spec == Init /\ [][Next]_vars /\ Fairness

-----------------------------------------------------------------------------
(* Whoever gets control gets the terminal as it was: while a command runs    *)
(* and once the shell is stopped or has ended, the settings are the user's,  *)
(* and a command runs under the shell's own handlers - except on a terminal  *)
(* that is gone, or after a signal in one of the three windows: while the    *)
(* terminal is readline's and the handlers are not, a stop between the       *)
(* question for the settings and their change (the answer is stale when the  *)
(* shell goes on under others), and before rl_clear_signals (Check).         *)
TerminalGivenBack ==
  ~hung /\ ~astray =>
    /\ run \in {"stopped", "ended"} => mode = user
    /\ run = "runs" /\ At("command") =>
         /\ mode = user
         /\ \A s \in Signals : handler[s] \notin {"readline", "winch"}
         /\ handler["INT"] = "app"

(* However signals nest, readline waits for a key with the terminal raw and  *)
(* its handlers in place; a signal the shell was started to ignore stays so  *)
(* (the same windows excepted).                                              *)
ReadyAtTheKey ==
  run = "runs" /\ At("select") /\ ~hung /\ ~astray =>
    /\ rl.prepped /\ mode = prepare_terminal_settings(rl.otio)
    /\ handler["INT"] = "readline" /\ handler["WINCH"] \in {"winch", "ignore"}
    /\ \A s \in Signals \ {"INT", "WINCH"} :
         handler[s] = IF rl.old[s] = "ignore" THEN "ignore" ELSE "readline"

(* A TERM or HUP that readline's handler has taken ends the shell, unless    *)
(* another signal is caught before it is looked at (there is room for one),  *)
(* or it came between the check and pselect and waits for the next key.      *)
Looked(s) == rl.caught = s /\ ~At("select")
CaughtIsResent ==
  \A s \in {"TERM", "HUP"} :
    Looked(s) ~> \/ run # "runs"
                 \/ rl.caught \notin {None, s}
                 \/ rl.caught = s /\ (At("select") \/ At("command"))

=============================================================================
