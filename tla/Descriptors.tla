---------------------------- MODULE Descriptors ----------------------------
(***************************************************************************)
(* The file descriptors of the shell and of the stages of its pipelines:    *)
(* execute_pipeline in the shell, what a stage does between fork and exec    *)
(* (handle_redirection among it), and the programs, which read their input   *)
(* to the end, write and are told when nobody reads. pipe and fork may fail  *)
(* at any call. Programs stand for external code: they use descriptors 0 and *)
(* 1 only, and hold what else they inherit.                                  *)
(***************************************************************************)
EXTENDS Integers, Sequences, FiniteSets, FiniteSetsExt

CONSTANTS
  OPEN_MAX,        \* descriptors of a process
  Capacity,        \* messages a pipe takes
  Redirects,       \* lists of redirections a stage may have
  Writes,          \* messages a program may have to write
  MaxStages,       \* bound: stages of a pipeline
  MaxForks         \* bound: stages of all pipelines together

ASSUME SizeAssumption ==
  /\ OPEN_MAX \in Nat /\ OPEN_MAX >= 3
  /\ Capacity \in Nat \ {0}
  /\ Writes \subseteq Nat /\ IsFiniteSet(Writes)
  /\ MaxStages \in Nat /\ MaxForks \in Nat

Number == 0..OPEN_MAX - 1
STDIN_FILENO == 0
STDOUT_FILENO == 1

\* What a descriptor refers to; pipes are numbered in the order they are made.
Open == [kind : {"terminal", "file", "read", "write"}, of : Nat]
Closed == [kind |-> "closed", of |-> 0]
Terminal == [kind |-> "terminal", of |-> 0]
ReadEnd(p) == [kind |-> "read", of |-> p]
WriteEnd(p) == [kind |-> "write", of |-> p]
Table == [Number -> Open \union {Closed}]

RedirectType == {"REDIRECT_INPUT", "REDIRECT_OUTPUT", "REDIRECT_APPEND", "REDIRECT_DUP"}
Redirect == [type : RedirectType, fd : {STDIN_FILENO, STDOUT_FILENO}, target : Nat]
ASSUME RedirectAssumption == Redirects \subseteq Seq(Redirect)

\* The descriptors execute_pipeline keeps in variables. None: -1.
None == -1
Pair == [read : Number \union {None}, write : Number \union {None}]
NoPair == [read |-> None, write |-> None]

VARIABLES
  fds,          \* the shell's descriptors
  pc,           \* where execute_pipeline is; "prompt" outside
  cmd, stages,  \* the stage to fork next, and how many there are
  error_pipe, pipefd, prev_fd,
  child,        \* the stages' processes, of earlier pipelines too if left behind
  content,      \* by pipe: messages in it
  asked,        \* stages of the pipelines begun
  failed,       \* history: pipe or fork failed once
  complaints,   \* history: messages put in this pipeline's error pipe by stages that
                \* complain, or that were told to write there
  shown,        \* history: of these, messages written to stderr by the shell
  taken         \* history: and messages read by stages that were told to read there

local == <<cmd, stages, error_pipe, pipefd, prev_fd>>
told == <<failed, complaints, shown, taken>>
vars == <<fds, pc, local, child, content, asked, told>>

Init ==
  /\ fds = [n \in Number |-> IF n < 3 THEN Terminal ELSE Closed]
  /\ pc = "prompt"
  /\ cmd = 0 /\ stages = 0
  /\ error_pipe = NoPair /\ pipefd = NoPair /\ prev_fd = None
  /\ child = <<>>
  /\ content = <<>>
  /\ asked = 0
  /\ failed = FALSE /\ complaints = 0 /\ shown = 0 /\ taken = 0

-----------------------------------------------------------------------------
(* Descriptors.                                                            *)

Unused(t) == {n \in Number : t[n] = Closed}
Close(t, ns) == [n \in Number |-> IF n \in ns THEN Closed ELSE t[n]]
Dup2(t, from, to) == [t EXCEPT ![to] = t[from]]

Lowest(t) == Min(Unused(t))
Second(t) == Min(Unused(t) \ {Lowest(t)})

\* Whoever has the pipe open for reading, or for writing: 0 is the shell.
Holders(end) ==
  {c \in DOMAIN child : \E n \in Number : child[c].fds[n] = end}
    \union (IF \E n \in Number : fds[n] = end THEN {0} ELSE {})

-----------------------------------------------------------------------------
(* redirect.c: from table to table.                                        *)

Opens(r) == r.type # "REDIRECT_DUP"

\* Which descriptor is replaced depends on the type; the number before the operator
\* counts for none of those that open a file.
handle_one(t, r) ==
  IF Opens(r)
  THEN [t EXCEPT ![IF r.type = "REDIRECT_INPUT" THEN STDIN_FILENO ELSE STDOUT_FILENO] =
                     [kind |-> "file", of |-> r.target]]
  ELSE Dup2(t, r.target, r.fd)

\* The tables after each of the redirections, from none of them to all.
Redirected(t, rs) ==
  LET after[n \in 0..Len(rs)] == IF n = 0 THEN t ELSE handle_one(after[n - 1], rs[n])
  IN after

handle_redirection(t, rs) == Redirected(t, rs)[Len(rs)]

\* A redirection can succeed: a number is free for the file, or there is something to
\* duplicate. The code asks no more of the number than dup2 does.
Possible(t, r) ==
  IF Opens(r) THEN Unused(t) # {} ELSE r.target \in Number /\ t[r.target] # Closed

\* The first n succeed.
Passes(t, rs, n) == \A i \in 1..n : Possible(Redirected(t, rs)[i - 1], rs[i])

\* One of the first n duplicates a number that is not the stage's own: what the shell
\* had open at the fork, the error pipe among it.
Far(rs, n) == \E i \in 1..n : ~Opens(rs[i]) /\ rs[i].target > 2

-----------------------------------------------------------------------------
(* execute_pipeline in the shell.                                          *)

Return == pc' = "prompt" /\ UNCHANGED <<local, asked>>

\* Err(...): the error pipe is closed, prev_fd and pipefd are not.
GiveUp ==
  /\ fds' = Close(fds, {error_pipe.read, error_pipe.write})
  /\ failed' = TRUE
  /\ Return
  /\ UNCHANGED <<child, content, complaints, shown, taken>>

PipeFails == Cardinality(Unused(fds)) < 2

\* pipe(error_pipe)
Begin(n) ==
  /\ pc = "prompt"
  /\ asked + n <= MaxForks
  /\ asked' = asked + n
  /\ stages' = n /\ cmd' = 1
  /\ pipefd' = NoPair /\ prev_fd' = None
  /\ complaints' = 0 /\ shown' = 0 /\ taken' = 0
  /\ UNCHANGED child
  /\ \/ /\ ~PipeFails
        /\ LET p == Len(content) + 1
           IN /\ fds' = [fds EXCEPT ![Lowest(fds)] = ReadEnd(p), ![Second(fds)] = WriteEnd(p)]
              /\ error_pipe' = [read |-> Lowest(fds), write |-> Second(fds)]
              /\ content' = Append(content, 0)
        /\ pc' = "pipe"
        /\ UNCHANGED failed
     \/ /\ failed' = TRUE
        /\ error_pipe' = NoPair
        /\ UNCHANGED <<fds, content, pc>>

\* The head of the loop: a stage with a successor gets a pipe.
MakePipe ==
  /\ pc = "pipe" /\ cmd < stages
  /\ \/ /\ ~PipeFails
        /\ LET p == Len(content) + 1
           IN /\ fds' = [fds EXCEPT ![Lowest(fds)] = ReadEnd(p), ![Second(fds)] = WriteEnd(p)]
              /\ pipefd' = [read |-> Lowest(fds), write |-> Second(fds)]
              /\ content' = Append(content, 0)
        /\ pc' = "fork"
        /\ UNCHANGED <<cmd, stages, error_pipe, prev_fd, child, asked, told>>
     \/ GiveUp

NewChild(stage, writes) ==
  [fds |-> fds, at |-> "forked", far |-> FALSE, stage |-> stage, last |-> stage = stages,
   errors |-> error_pipe.write, pipe |-> pipefd, input |-> prev_fd, writes |-> writes]

\* Mutant: the shell keeps the write end.
ForkStage_open ==
  /\ pc = "fork"
  /\ \/ \E w \in Writes :
          /\ child' = Append(child, NewChild(cmd, w))
          /\ fds' = Close(fds, {prev_fd})
          /\ prev_fd' = pipefd.read
          /\ cmd' = cmd + 1
          /\ pc' = "pipe"
          /\ UNCHANGED <<stages, error_pipe, pipefd, content, asked, told>>
     \/ GiveUp

\* Nobody can tell the fork from the two closes that follow it: they wait for nothing.
ForkStage ==
  /\ pc = "fork"
  /\ \/ \E w \in Writes :
          /\ child' = Append(child, NewChild(cmd, w))
          /\ fds' = Close(fds, {pipefd.write, prev_fd})
          /\ prev_fd' = pipefd.read
          /\ cmd' = cmd + 1
          /\ pc' = "pipe"
          /\ UNCHANGED <<stages, error_pipe, pipefd, content, asked, told>>
     \/ GiveUp

\* Mutant: the read end of the last pipe stays open.
ForkLast_open ==
  /\ pc = "pipe" /\ cmd = stages
  /\ \/ \E w \in Writes :
          /\ child' = Append(child, NewChild(cmd, w))
          /\ pc' = "wait"
          /\ UNCHANGED <<fds, local, content, asked, told>>
     \/ GiveUp

ForkLast ==
  /\ pc = "pipe" /\ cmd = stages
  /\ \/ \E w \in Writes :
          /\ child' = Append(child, NewChild(cmd, w))
          /\ fds' = Close(fds, {prev_fd})
          /\ pc' = "wait"
          /\ UNCHANGED <<local, content, asked, told>>
     \/ GiveUp

\* waitpid for the last stage, and wait for every other child there is, those that
\* an earlier pipeline left behind included. Mutant: the write end stays open.
WaitForAll_open ==
  /\ pc = "wait"
  /\ \A c \in DOMAIN child : child[c].at = "ended"
  /\ child' = <<>>
  /\ pc' = "drain"
  /\ UNCHANGED <<fds, local, content, asked, told>>

WaitForAll ==
  /\ pc = "wait"
  /\ \A c \in DOMAIN child : child[c].at = "ended"
  /\ child' = <<>>
  /\ fds' = Close(fds, {error_pipe.write})
  /\ pc' = "drain"
  /\ UNCHANGED <<local, content, asked, told>>

\* read(error_pipe[0]) until the end, and write to stderr. Mutant: it is not read.
Drain_unread ==
  /\ pc = "drain"
  /\ fds' = Close(fds, {error_pipe.read})
  /\ Return
  /\ UNCHANGED <<child, content, told>>

Drain ==
  /\ pc = "drain"
  /\ LET p == fds[error_pipe.read].of
     IN \/ /\ content[p] > 0
           /\ content' = [content EXCEPT ![p] = 0]
           /\ shown' = shown + content[p]
           /\ UNCHANGED <<fds, pc, local, asked>>
        \/ /\ content[p] = 0 /\ Holders(WriteEnd(p)) = {}
           /\ fds' = Close(fds, {error_pipe.read})
           /\ Return
           /\ UNCHANGED <<content, shown>>
  /\ UNCHANGED <<child, failed, complaints, taken>>

ShellStep == MakePipe \/ ForkStage \/ ForkLast \/ WaitForAll \/ Drain

-----------------------------------------------------------------------------
(* A stage, from fork to its end.                                          *)

\* The table of stage c before its redirections.
Joined(c) ==
  LET k == child[c]
      in == IF k.input = None THEN k.fds ELSE Close(Dup2(k.fds, k.input, STDIN_FILENO), {k.input})
  IN IF k.last THEN in
     ELSE Close(Dup2(in, k.pipe.write, STDOUT_FILENO), {k.pipe.read, k.pipe.write})

Ended(c) ==
  [child EXCEPT ![c] = [@ EXCEPT !.at = "ended", !.fds = Close(child[c].fds, Number),
                                 !.writes = 0, !.errors = 0, !.pipe = NoPair, !.input = None]]

\* Redirections are made one after the other until one fails. One that fails is
\* reported by a message in the error pipe, and so is an exec that fails, of the last
\* stage to the terminal.
Start(c) ==
  /\ child[c].at = "forked"
  /\ \E rs \in Redirects : \E n \in 0..Len(rs) :
       LET after == Redirected(Joined(c), rs)
           become(at) ==
             [child EXCEPT ![c] = [@ EXCEPT !.fds = after[n], !.at = at, !.far = Far(rs, n)]]
       IN /\ Passes(Joined(c), rs, n)
          /\ \/ n = Len(rs) /\ child' = become("runs")
             \/ n = Len(rs) /\ child' = IF child[c].last THEN Ended(c) ELSE become("complains")
             \/ /\ n < Len(rs)
                /\ Opens(rs[n + 1]) \/ ~Possible(after[n], rs[n + 1])
                /\ child' = become("complains")
  /\ UNCHANGED <<fds, pc, local, content, asked, told>>

\* The pipe the shell is to show, and the one a stage has for its complaint.
Showing(p) == error_pipe.read \in Number /\ fds[error_pipe.read] = ReadEnd(p)
Own(c) == child[c].fds[child[c].errors].of

\* dprintf(error_pipe[1], ...), and exit.
Complain(c) ==
  /\ child[c].at = "complains"
  /\ content[Own(c)] < Capacity
  /\ content' = [content EXCEPT ![Own(c)] = @ + 1]
  /\ complaints' = IF Showing(Own(c)) THEN complaints + 1 ELSE complaints
  /\ child' = Ended(c)
  /\ UNCHANGED <<fds, pc, local, asked, failed, shown, taken>>

Input(c) == child[c].fds[STDIN_FILENO]
Output(c) == child[c].fds[STDOUT_FILENO]

AtEndOfInput(c) ==
  Input(c).kind = "read" => content[Input(c).of] = 0 /\ Holders(WriteEnd(Input(c).of)) = {}

Read(c) ==
  /\ child[c].at = "runs"
  /\ Input(c).kind = "read"
  /\ content[Input(c).of] > 0
  /\ content' = [content EXCEPT ![Input(c).of] = @ - 1]
  /\ taken' = IF child[c].far /\ Showing(Input(c).of) THEN taken + 1 ELSE taken
  /\ UNCHANGED <<fds, pc, local, child, asked, failed, complaints, shown>>

\* Into a pipe only as long as there is room; SIGPIPE ends a program nobody reads from.
Write(c) ==
  /\ child[c].at = "runs"
  /\ child[c].writes > 0
  /\ IF Output(c).kind = "write"
     THEN IF Holders(ReadEnd(Output(c).of)) = {}
          THEN child' = Ended(c) /\ UNCHANGED <<content, complaints>>
          ELSE /\ content[Output(c).of] < Capacity
               /\ content' = [content EXCEPT ![Output(c).of] = @ + 1]
               /\ complaints' = IF child[c].far /\ Showing(Output(c).of)
                                THEN complaints + 1 ELSE complaints
               /\ child' = [child EXCEPT ![c].writes = @ - 1]
     ELSE child' = [child EXCEPT ![c].writes = 0] /\ UNCHANGED <<content, complaints>>
  /\ UNCHANGED <<fds, pc, local, asked, failed, shown, taken>>

\* A program ends when it has written all and read all.
End(c) ==
  /\ child[c].at = "runs"
  /\ child[c].writes = 0
  /\ AtEndOfInput(c)
  /\ child' = Ended(c)
  /\ UNCHANGED <<fds, pc, local, content, asked, told>>

\* It may also stop early.
Quit(c) ==
  /\ child[c].at = "runs"
  /\ child' = Ended(c)
  /\ UNCHANGED <<fds, pc, local, content, asked, told>>

ChildStep(c) == Start(c) \/ Complain(c) \/ Read(c) \/ Write(c) \/ End(c)

Next ==
  \/ \E n \in 2..MaxStages : Begin(n)
  \/ ShellStep
  \/ \E c \in DOMAIN child : ChildStep(c) \/ Quit(c)

Spec == Init /\ [][Next]_vars

\* The shell and each child are processes the kernel schedules; what the children
\* wait for is in the guards.
Fairness ==
  /\ WF_vars(ShellStep)
  /\ WF_vars(\E c \in DOMAIN child : ChildStep(c))

FairSpec == Spec /\ Fairness

-----------------------------------------------------------------------------
(* Properties                                                              *)

Child ==
  [fds : Table, at : {"forked", "complains", "runs", "ended"}, far : BOOLEAN,
   stage : 1..MaxStages, last : BOOLEAN, errors : Number, pipe : Pair, input : Number \union {None}, writes : Nat]

\* The shape of the state: the descriptors the shell remembers are numbers, and no
\* pipe holds more than it can.
TypeOK ==
  /\ fds \in Table
  /\ pc \in {"prompt", "pipe", "fork", "wait", "drain"}
  /\ cmd \in 0..MaxStages /\ stages \in 0..MaxStages
  /\ error_pipe \in Pair /\ pipefd \in Pair /\ prev_fd \in Number \union {None}
  /\ child \in Seq(Child)
  /\ content \in Seq(0..Capacity)
  /\ asked \in 0..MaxForks
  /\ failed \in BOOLEAN /\ {complaints, shown, taken} \subseteq Nat

\* A pipe between two stages is held by these two and nobody else, so that the end
\* of the one is the end of the other's input, and the end of the other ends the
\* one: not by a stage forked between or after them, not by the shell, except for
\* the read end until the reader is forked. Exceptions: once pipe or fork has failed,
\* the shell and all that it forks later may hold that read end; and a stage told to
\* duplicate a number beyond 2 (>&4, which nothing forbids) has the error pipe as its
\* input or output, or after a failure what the shell has left open. No other stage
\* has, and no pipe but that one is reached in this way.
PipesBelongToTheirStages ==
  TypeOK /\ \A c \in DOMAIN child : child[c].at = "runs" =>
    /\ Input(c).kind = "read" =>
         \/ Holders(WriteEnd(Input(c).of)) \subseteq {c - 1}
         \/ child[c].far /\ (failed \/ Input(c).of = Own(c))
    /\ (Output(c).kind = "write" /\ ~failed) =>
         \/ /\ Holders(ReadEnd(Output(c).of)) \subseteq {0, c + 1}
            /\ 0 \in Holders(ReadEnd(Output(c).of)) =>
                 pc \in {"pipe", "fork"} /\ fds[prev_fd] = ReadEnd(Output(c).of)
         \/ child[c].far /\ Output(c).of = Own(c)

\* As long as pipe and fork succeed, the shell is back at the prompt with the
\* descriptors it had. (After a failure prev_fd stays open, after one of fork in the
\* loop pipefd as well.)
DescriptorsComeBack ==
  (pc = "prompt" /\ ~failed) =>
    fds = [n \in Number |-> IF n < 3 THEN Terminal ELSE Closed]

\* A pipeline that has been forked comes to its end with every message of its stages
\* shown, but for what a stage has taken that was itself told to read the error pipe
\* (<&3); and the shell shows nothing but these and what a stage has written that was
\* told to write there. What a stage reads or writes that was not told so never
\* counts: it must not be from the error pipe, nor into it.
ErrorsAreShown == [][(pc = "drain" /\ pc' = "prompt") => shown + taken = complaints]_vars

\* A stage waits for room in the error pipe, or for a message in it.
Full ==
  \E c \in DOMAIN child :
    /\ \/ child[c].at = "complains"
       \/ child[c].at = "runs" /\ child[c].writes > 0 /\ Output(c) = WriteEnd(Own(c))
    /\ content[Own(c)] = Capacity
ReadsErrors ==
  \E c \in DOMAIN child : child[c].at = "runs" /\ Input(c) = ReadEnd(Own(c)) /\ content[Own(c)] = 0

\* A pipeline returns, whatever its programs write and read, and whichever stop early
\* or do not start. It does not when the messages of its stages do not fit into the
\* error pipe, which is read only after the waits, nor when a stage reads that pipe,
\* whose write end the shell has until then; nor, possibly, after a failure: the
\* shell then holds the read end of a pipe, its writer waits for ever, and the next
\* pipeline waits for that writer.
PipelineReturns == (pc # "prompt") ~> (pc = "prompt" \/ failed \/ Full \/ ReadsErrors)
=============================================================================
