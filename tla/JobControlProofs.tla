-------------------------- MODULE JobControlProofs --------------------------
(***************************************************************************)
(* Proofs about JobControl, for every set of process ids, every bound and   *)
(* any number of commands: the table of jobs and the children it names stay *)
(* in step until a pipeline collects a job.                                 *)
(***************************************************************************)
EXTENDS JobControl, SequenceTheorems, TLAPS

\* remove_job closes the gap: the entries before i keep their place, the later ones
\* move up by one.
LEMMA RemoveAtProperties ==
  ASSUME NEW S, NEW s \in Seq(S), NEW i \in 1..Len(s)
  PROVE  /\ RemoveAt(s, i) \in Seq(S)
         /\ Len(RemoveAt(s, i)) = Len(s) - 1
         /\ \A k \in 1..Len(s) - 1 :
              RemoveAt(s, i)[k] = IF k < i THEN s[k] ELSE s[k + 1]
<1> DEFINE a == SubSeq(s, 1, i - 1)
           b == SubSeq(s, i + 1, Len(s))
<1>0. Len(s) \in Nat /\ i \in Nat /\ \A k \in 1..Len(s) : s[k] \in S
  BY LenProperties, ElementOfSeq
<1>1. /\ a \in Seq(S)
      /\ Len(a) = i - 1
      /\ \A k \in 1..i - 1 : a[k] = s[k]
  <2>1. \A k \in 1..i - 1 : s[k] \in S
    BY <1>0
  <2> QED BY <1>0, <2>1, SubSeqProperties, SMT
<1>2. /\ b \in Seq(S)
      /\ Len(b) = Len(s) - i
      /\ \A k \in 1..Len(s) - i : b[k] = s[i + k]
  <2>1. \A k \in i + 1..Len(s) : s[k] \in S
    BY <1>0
  <2> QED BY <1>0, <2>1, SubSeqProperties, SMT
<1>3. /\ a \o b \in Seq(S)
      /\ Len(a \o b) = Len(s) - 1
      /\ \A k \in 1..Len(s) - 1 :
           (a \o b)[k] = IF k <= i - 1 THEN a[k] ELSE b[k - (i - 1)]
  <2> HIDE DEF a, b
  <2> QED BY <1>0, <1>1, <1>2, ConcatProperties
<1>4. ASSUME NEW k \in 1..Len(s) - 1
      PROVE  (a \o b)[k] = IF k < i THEN s[k] ELSE s[k + 1]
  <2> HIDE DEF a, b
  <2>1. CASE k < i
    BY <2>1, <1>0, <1>1, <1>3
  <2>2. CASE ~ (k < i)
    <3>1. k - (i - 1) \in 1..Len(s) - i /\ i + (k - (i - 1)) = k + 1
      BY <2>2, <1>0
    <3> QED BY <2>2, <3>1, <1>0, <1>2, <1>3
  <2> QED BY <2>1, <2>2
<1> QED BY <1>3, <1>4 DEF RemoveAt

-----------------------------------------------------------------------------
(* Type correctness.                                                       *)

LEMMA TypeInit == Init => TypeOK
<1> SUFFICES ASSUME Init PROVE TypeOK
  OBVIOUS
<1>1. job_list \in Seq(Job)
  BY EmptySeq DEF Init
<1>2. proc \in [Pid -> Proc]
  BY DEF Init, Proc, Free
<1>3. 0 \in 0..MaxStages /\ 0 \in 0..MaxCommands
  BY BoundAssumption
<1>4. keep_running \in BOOLEAN /\ stolen \in BOOLEAN
  BY Zenon DEF Init
<1> QED BY <1>1, <1>2, <1>3, <1>4 DEF Init, TypeOK

\* What fork leaves in the table of children, and what a wait call takes from it.
LEMMA ProcTypes ==
  ASSUME TypeOK, NEW p \in Pid
  PROVE  /\ \A group \in Pid \cup {ShellGroup}, l \in Nat :
              [proc EXCEPT ![p] = Started(group, l)] \in [Pid -> Proc]
         /\ [proc EXCEPT ![p] = Free] \in [Pid -> Proc]
         /\ \A state \in {"running", "stopped", "zombie"}, s \in Nat :
              [proc EXCEPT ![p] = Now(p, state, s)] \in [Pid -> Proc]
         /\ proc[p].status \in Nat
BY DEF TypeOK, Proc, Started, Free, Now

LEMMA TypeInput ==
  ASSUME TypeOK, Input
  PROVE  TypeOK'
<1> USE BoundAssumption
<1>1. CASE EmptyLine
  BY <1>1 DEF TypeOK, EmptyLine, Again
<1>2. CASE Refused \/ Builtin \/ Exit
  <2>1. keep_running' \in BOOLEAN
    BY <1>2 DEF TypeOK, Refused, Builtin, Exit
  <2>2. result' \in {0, 1} \cup ExitCode
    BY <1>2, Zenon DEF Refused, Builtin, Exit
  <2>3. result' \in Int
    BY <2>2, ExitAssumption
  <2> QED BY <1>2, <2>1, <2>3 DEF TypeOK, Refused, Builtin, Exit, Command
<1>3. CASE Background
  <2>1. line' \in 0..MaxCommands /\ line' \in Nat
    BY <1>3 DEF TypeOK, Background, Command
  <2>2. proc' \in [Pid -> Proc]
    BY <1>3, <2>1, ProcTypes DEF TypeOK, Background, FreePids
  <2>3. job_list' \in Seq(Job) /\ next_job_id' \in Nat \ {0}
    <3>1. CASE UNCHANGED <<job_list, next_job_id>>
      BY <3>1 DEF TypeOK
    <3>2. ASSUME NEW p \in Pid, add_job(p, line')
          PROVE  job_list' \in Seq(Job) /\ next_job_id' \in Nat \ {0}
      BY <3>2, <2>1, AppendProperties DEF TypeOK, add_job, Job
    <3> QED BY <1>3, <3>1, <3>2 DEF Background, FreePids
  <2> QED BY <1>3, <2>1, <2>2, <2>3 DEF TypeOK, Background
<1>4. CASE Foreground
  <2>1. line' \in 0..MaxCommands /\ line' \in Nat
    BY <1>4 DEF TypeOK, Foreground, Command
  <2>2. proc' \in [Pid -> Proc] /\ pid' \in Pid
    <3>1. CASE UNCHANGED <<proc, pid>>
      BY <3>1 DEF TypeOK
    <3>2. ASSUME NEW p \in Pid, proc' = [proc EXCEPT ![p] = Started(ShellGroup, line')],
                 pid' = p
          PROVE  proc' \in [Pid -> Proc] /\ pid' \in Pid
      BY <3>2, <2>1, ProcTypes
    <3> QED BY <1>4, <3>1, <3>2 DEF Foreground, FreePids
  <2> QED BY <1>4, <2>1, <2>2 DEF TypeOK, Foreground
<1>5. CASE Pipeline
  BY <1>5 DEF TypeOK, Pipeline, Command
<1> QED BY <1>1, <1>2, <1>3, <1>4, <1>5 DEF Input

LEMMA TypeShellStep ==
  ASSUME TypeOK, ShellStep
  PROVE  TypeOK'
<1> USE BoundAssumption
<1>1. CASE PrintJobStatus
  <2>1. job \in 1..Len(job_list) /\ Len(job_list) \in Nat
    BY <1>1, LenProperties DEF TypeOK, PrintJobStatus
  <2>2. proc' \in [Pid -> Proc]
    BY <1>1, ProcTypes DEF TypeOK, PrintJobStatus, Reap, Zombies
  <2>3. job_list' \in Seq(Job) /\ next_job_id' \in Nat \ {0}
    BY <1>1, <2>1, RemoveAtProperties DEF TypeOK, PrintJobStatus, remove_job
  <2>4. job' \in Nat \ {0}
    BY <1>1 DEF TypeOK, PrintJobStatus
  <2> QED BY <1>1, <2>2, <2>3, <2>4 DEF TypeOK, PrintJobStatus
<1>2. CASE Prompt \/ ExitReturns \/ EndOfLine
  BY <1>2 DEF TypeOK, Prompt, ExitReturns, EndOfLine
<1>3. CASE Loop
  BY <1>3 DEF TypeOK, Loop, Again
<1>4. CASE Wait
  <2>1. proc' \in [Pid -> Proc]
    BY <1>4, ProcTypes DEF TypeOK, Wait, Reap
  <2>2. result' \in Int
    BY <1>4, ProcTypes DEF TypeOK, Wait, WEXITSTATUS, WTERMSIG
  <2> QED BY <1>4, <2>1, <2>2 DEF TypeOK, Wait
<1>5. CASE PipelineFork
  <2>1. proc' \in [Pid -> Proc] /\ pid' \in Pid
    <3>1. CASE UNCHANGED <<proc, pid>>
      BY <3>1 DEF TypeOK
    <3>2. line \in Nat
      BY DEF TypeOK
    <3>3. ASSUME NEW p \in Pid, proc' = [proc EXCEPT ![p] = Started(ShellGroup, line)],
                 pid' = p
          PROVE  proc' \in [Pid -> Proc] /\ pid' \in Pid
      BY <3>2, <3>3, ProcTypes
    <3> QED BY <1>5, <3>1, <3>3 DEF PipelineFork, FreePids
  <2>2. stage' \in 0..MaxStages
    BY <1>5 DEF TypeOK, PipelineFork
  <2> QED BY <1>5, <2>1, <2>2 DEF TypeOK, PipelineFork
<1>6. CASE PipelineWaitLast
  <2>1. proc' \in [Pid -> Proc] /\ status' \in Nat
    BY <1>6, ProcTypes DEF TypeOK, PipelineWaitLast, Reap
  <2> QED BY <1>6, <2>1 DEF TypeOK, PipelineWaitLast
<1>7. CASE PipelineWaitAny
  <2>1. proc' \in [Pid -> Proc] /\ status' \in Nat
    BY <1>7, ProcTypes DEF TypeOK, PipelineWaitAny, Reap, Zombies
  <2>2. stolen' \in BOOLEAN
    BY <1>7 DEF TypeOK, PipelineWaitAny
  <2> QED BY <1>7, <2>1, <2>2 DEF TypeOK, PipelineWaitAny
<1>8. CASE PipelineDone
  <2>1. result' \in Int
    BY <1>8 DEF TypeOK, PipelineDone, WEXITSTATUS
  <2> QED BY <1>8, <2>1 DEF TypeOK, PipelineDone
<1> QED BY <1>1, <1>2, <1>3, <1>4, <1>5, <1>6, <1>7, <1>8 DEF ShellStep

\* What the children and the terminal do to the table of children: a child stays
\* a child, of its group and its command line.
LEMMA ChildrenKeepIdentity ==
  ASSUME TypeOK, Environment
  PROVE  /\ TypeOK'
         /\ \A p \in Pid : /\ proc'[p].pgid = proc[p].pgid
                           /\ proc'[p].line = proc[p].line
                           /\ proc'[p].st = "free" <=> proc[p].st = "free"
         /\ UNCHANGED <<job_list, next_job_id, pc, pid, line, stolen>>
<1> DEFINE Same == \A p \in Pid : /\ proc'[p].pgid = proc[p].pgid
                                  /\ proc'[p].line = proc[p].line
                                  /\ proc'[p].st = "free" <=> proc[p].st = "free"
<1>1. CASE Interrupt
  <2>1. PICK hit \in SUBSET {p \in Pid : proc[p].st = "running" /\ proc[p].pgid = ShellGroup} :
          proc' = [p \in Pid |-> IF p \in hit THEN Now(p, "zombie", SIGINT) ELSE proc[p]]
    BY <1>1 DEF Interrupt
  <2>2. \A p \in Pid : proc[p] \in Proc
    BY DEF TypeOK
  <2>3. proc' \in [Pid -> Proc] /\ Same
    BY <2>1, <2>2 DEF Proc, SIGINT, Now
  <2> QED BY <1>1, <2>3 DEF TypeOK, Interrupt
<1>2. ASSUME NEW q \in Pid, ChildEnds(q) \/ ChildStops(q) \/ ChildContinues(q)
      PROVE  TypeOK' /\ Same /\ UNCHANGED <<job_list, next_job_id, pc, pid, line, stolen>>
  <2>1. proc' \in [Pid -> Proc]
    BY <1>2, ProcTypes, StatusAssumption DEF ChildEnds, ChildStops, ChildContinues
  <2>2. Same
    BY <1>2 DEF TypeOK, Proc, Now, ChildEnds, ChildStops, ChildContinues
  <2> QED BY <1>2, <2>1, <2>2 DEF TypeOK, ChildEnds, ChildStops, ChildContinues, shell
<1> QED BY <1>1, <1>2 DEF Environment, Interrupt

LEMMA TypeStep == TypeOK /\ [Next]_vars => TypeOK'
<1> SUFFICES ASSUME TypeOK, [Next]_vars PROVE TypeOK'
  OBVIOUS
<1>1. CASE UNCHANGED vars
  BY <1>1 DEF TypeOK, vars, shell
<1> QED BY <1>1, TypeInput, TypeShellStep, ChildrenKeepIdentity DEF Next

\* The variables have their types in every behaviour.
THEOREM TypeCorrect == Spec => []TypeOK
<1>1. Init => TypeOK
  BY TypeInit
<1>2. TypeOK /\ [Next]_vars => TypeOK'
  BY TypeStep
<1> QED BY <1>1, <1>2, PTL DEF Spec

-----------------------------------------------------------------------------
(* The ids of the job table.                                               *)

\* What an entry of the table is.
LEMMA Entries ==
  ASSUME TypeOK
  PROVE  /\ job_list \in Seq(Job)
         /\ Len(job_list) \in Nat
         /\ \A i \in 1..Len(job_list) : /\ job_list[i].job_id \in Nat \ {0}
                                        /\ job_list[i].pgid \in Pid
                                        /\ job_list[i].line \in Nat
<1>1. job_list \in Seq(Job)
  BY DEF TypeOK
<1>2. Len(job_list) \in Nat /\ \A i \in 1..Len(job_list) : job_list[i] \in Job
  BY <1>1, LenProperties, ElementOfSeq
<1> QED BY <1>1, <1>2 DEF Job

\* Only execute_background_job and print_job_status change the table: the first adds
\* an entry at its end, the second takes one entry out.
LEMMA TableChanges ==
  ASSUME TypeOK, [Next]_vars
  PROVE  \/ UNCHANGED <<job_list, next_job_id>>
         \/ \E p \in Pid : add_job(p, line')
         \/ \E i \in 1..Len(job_list) : remove_job(i)
<1>1. CASE PrintJobStatus
  <2>1. CASE UNCHANGED <<job_list, next_job_id>>
    BY <2>1
  <2>2. CASE remove_job(job)
    <3>1. job \in 1..Len(job_list)
      BY <1>1, LenProperties DEF TypeOK, PrintJobStatus
    <3> QED BY <2>2, <3>1
  <2> QED BY <1>1, <2>1, <2>2 DEF PrintJobStatus
<1>2. CASE Background
  BY <1>2 DEF Background, FreePids
<1>3. CASE UNCHANGED vars
  BY <1>3 DEF vars
<1>4. CASE Environment
  BY <1>4, ChildrenKeepIdentity
<1>5. CASE EmptyLine \/ Refused \/ Builtin \/ Exit \/ Foreground \/ Pipeline
  BY <1>5 DEF EmptyLine, Refused, Builtin, Exit, Foreground, Pipeline
<1>6. CASE Prompt \/ ExitReturns \/ Wait \/ PipelineFork \/ PipelineWaitLast \/ PipelineWaitAny
           \/ PipelineDone \/ EndOfLine \/ Loop
  BY <1>6 DEF Prompt, ExitReturns, Wait, PipelineFork, PipelineWaitLast, PipelineWaitAny,
              PipelineDone, EndOfLine, Loop
<1> QED BY <1>1, <1>2, <1>3, <1>4, <1>5, <1>6 DEF Next, ShellStep, Input

LEMMA JobIdsStep ==
  ASSUME TypeOK, JobIdsAscend, [Next]_vars
  PROVE  JobIdsAscend'
<1>0. /\ job_list \in Seq(Job)
      /\ Len(job_list) \in Nat
      /\ next_job_id \in Nat \ {0}
      /\ \A i \in 1..Len(job_list) : job_list[i].job_id \in Nat
  BY Entries DEF TypeOK
<1> DEFINE Id(i) == job_list[i].job_id
           Id2(i) == job_list'[i].job_id
<1>a. /\ \A i, j \in 1..Len(job_list) : i < j => Id(i) < Id(j)
      /\ \A i \in 1..Len(job_list) : Id(i) \in Nat /\ Id(i) < next_job_id
  BY <1>0 DEF JobIdsAscend
<1>1. CASE UNCHANGED <<job_list, next_job_id>>
  BY <1>1 DEF JobIdsAscend
<1>2. ASSUME NEW p \in Pid, add_job(p, line')
      PROVE  JobIdsAscend'
  <2> DEFINE new == [job_id |-> next_job_id, pgid |-> p, line |-> line']
  <2>1. line' \in Nat
    BY TypeStep DEF TypeOK
  <2>2. new \in Job /\ new.job_id = next_job_id
    BY <1>0, <2>1 DEF Job
  <2>3. job_list' = Append(job_list, new) /\ next_job_id' = next_job_id + 1
    BY <1>2 DEF add_job
  <2> HIDE DEF new
  <2>4. /\ Len(job_list') = Len(job_list) + 1
        /\ job_list' # <<>>
        /\ \A i \in 1..Len(job_list) : job_list'[i] = job_list[i]
        /\ job_list'[Len(job_list) + 1] = new
    BY <1>0, <2>2, <2>3, AppendProperties
  <2>5. ASSUME NEW i \in 1..Len(job_list'), NEW j \in 1..Len(job_list'), i < j
        PROVE  job_list'[i].job_id < job_list'[j].job_id
    <3> HIDE DEF Id
    <3>1. \A k \in 1..Len(job_list) : Id2(k) = Id(k)
      BY <2>4 DEF Id
    <3>2. Id2(Len(job_list) + 1) = next_job_id
      BY <2>2, <2>4
    <3> HIDE DEF Id2
    <3>3. Id2(i) < Id2(j)
      BY <1>0, <1>a, <2>4, <2>5, <3>1, <3>2
    <3> QED BY <3>3 DEF Id2
  <2>6. ASSUME NEW i \in 1..Len(job_list')
        PROVE  job_list'[i].job_id < next_job_id'
    BY <1>0, <2>2, <2>3, <2>4 DEF JobIdsAscend
  <2> QED BY <2>4, <2>5, <2>6 DEF JobIdsAscend
<1>3. ASSUME NEW i \in 1..Len(job_list), remove_job(i)
      PROVE  JobIdsAscend'
  <2>1. /\ job_list' \in Seq(Job)
        /\ Len(job_list') = Len(job_list) - 1
        /\ \A k \in 1..Len(job_list) - 1 :
             job_list'[k] = IF k < i THEN job_list[k] ELSE job_list[k + 1]
    BY <1>0, <1>3, RemoveAtProperties DEF remove_job
  <2>2. next_job_id' = IF Len(job_list) = 1 THEN 1 ELSE next_job_id
    BY <1>3 DEF remove_job
  <2>3. ASSUME NEW k \in 1..Len(job_list'), NEW l \in 1..Len(job_list'), k < l
        PROVE  job_list'[k].job_id < job_list'[l].job_id
    <3> HIDE DEF Id
    <3>1. \A m \in 1..Len(job_list) - 1 : Id2(m) = IF m < i THEN Id(m) ELSE Id(m + 1)
      BY <2>1 DEF Id
    <3> HIDE DEF Id2
    <3>2. Id2(k) < Id2(l)
      BY <1>0, <1>a, <2>1, <2>3, <3>1
    <3> QED BY <3>2 DEF Id2
  <2>4. ASSUME NEW k \in 1..Len(job_list')
        PROVE  job_list'[k].job_id < next_job_id'
    <3> HIDE DEF Id
    <3>1. \A m \in 1..Len(job_list) - 1 : Id2(m) = IF m < i THEN Id(m) ELSE Id(m + 1)
      BY <2>1 DEF Id
    <3> HIDE DEF Id2
    <3>2. k \in 1..Len(job_list) - 1 /\ next_job_id' = next_job_id
      BY <1>0, <2>1, <2>2, <2>4
    <3>3. Id2(k) < next_job_id
      BY <1>0, <1>a, <3>1, <3>2
    <3> QED BY <3>2, <3>3 DEF Id2
  <2>5. job_list' = <<>> => next_job_id' = 1
    BY <1>0, <2>1, <2>2, EmptySeq
  <2> QED BY <2>3, <2>4, <2>5 DEF JobIdsAscend
<1> QED BY <1>1, <1>2, <1>3, TableChanges

-----------------------------------------------------------------------------
(* The children and the entries that name them, one lemma per effect a step *)
(* can have on them.                                                        *)

Tracking == /\ OwnGroups /\ WaitedChildIsOurs
            /\ EntriesFollowChildren /\ BackgroundChildIsListed

\* Neither the table nor the children change.
LEMMA QuietStep ==
  ASSUME TypeOK, Tracking, UNCHANGED <<job_list, proc, stolen>>,
         pc' \notin {"wait", "waitlast"} \/ UNCHANGED <<pc, pid, line>>
  PROVE  Tracking'
BY DEF Tracking, OwnGroups, WaitedChildIsOurs, EntriesFollowChildren,
       BackgroundChildIsListed, Children, FreePids

\* The children or the terminal act.
LEMMA EnvironmentStep ==
  ASSUME TypeOK, Tracking, Environment
  PROVE  Tracking'
<1>1. /\ \A p \in Pid : /\ proc'[p].pgid = proc[p].pgid
                        /\ proc'[p].line = proc[p].line
                        /\ proc'[p].st = "free" <=> proc[p].st = "free"
      /\ UNCHANGED <<job_list, pc, pid, line, stolen>>
  BY ChildrenKeepIdentity
<1>2. pid \in Pid /\ \A i \in 1..Len(job_list) : job_list[i].pgid \in Pid
  BY Entries DEF TypeOK
<1>3. OwnGroups'
  BY <1>1 DEF Tracking, OwnGroups
<1>4. WaitedChildIsOurs'
  BY <1>1, <1>2 DEF Tracking, WaitedChildIsOurs
<1>5. EntriesFollowChildren'
  BY <1>1, <1>2 DEF Tracking, EntriesFollowChildren
<1>6. BackgroundChildIsListed'
  BY <1>1 DEF Tracking, BackgroundChildIsListed, Children, FreePids
<1> QED BY <1>3, <1>4, <1>5, <1>6 DEF Tracking

\* fork for a foreground command or for a stage of a pipeline.
LEMMA ForegroundForkStep ==
  ASSUME TypeOK, Tracking, NEW p \in FreePids,
         proc' = [proc EXCEPT ![p] = Started(ShellGroup, line')],
         pid' = p,
         UNCHANGED <<job_list, stolen>>
  PROVE  Tracking'
<1>0. /\ p \in Pid /\ proc[p].st = "free"
      /\ \A q \in Pid : q # p => proc'[q] = proc[q]
      /\ proc'[p].st = "running" /\ proc'[p].pgid = ShellGroup /\ proc'[p].line = line'
  BY DEF TypeOK, FreePids, Started
<1>1. OwnGroups'
  BY <1>0 DEF Tracking, OwnGroups
<1>2. WaitedChildIsOurs'
  BY <1>0 DEF WaitedChildIsOurs
<1>3. EntriesFollowChildren'
  BY <1>0, Entries DEF Tracking, EntriesFollowChildren
<1>4. BackgroundChildIsListed'
  BY <1>0, PidAssumption DEF Tracking, BackgroundChildIsListed, Children, FreePids
<1> QED BY <1>1, <1>2, <1>3, <1>4 DEF Tracking

\* fork for a background job, and its entry.
LEMMA BackgroundForkStep ==
  ASSUME TypeOK, Tracking, NEW p \in FreePids, line' \in Nat,
         proc' = [proc EXCEPT ![p] = Started(p, line')],
         add_job(p, line'),
         pc' \notin {"wait", "waitlast"}, UNCHANGED stolen
  PROVE  Tracking'
<1> DEFINE new == [job_id |-> next_job_id, pgid |-> p, line |-> line']
<1>0. /\ p \in Pid /\ proc[p].st = "free"
      /\ \A q \in Pid : q # p => proc'[q] = proc[q]
      /\ proc'[p].st = "running" /\ proc'[p].pgid = p /\ proc'[p].line = line'
  BY DEF TypeOK, FreePids, Started
<1>1. /\ Len(job_list') = Len(job_list) + 1
      /\ \A i \in 1..Len(job_list) : job_list'[i] = job_list[i]
      /\ job_list'[Len(job_list) + 1].pgid = p
      /\ job_list'[Len(job_list) + 1].line = line'
  <2>1. new \in Job /\ new.pgid = p /\ new.line = line'
    BY <1>0 DEF TypeOK, Job
  <2>2. job_list' = Append(job_list, new)
    BY DEF add_job
  <2> HIDE DEF new
  <2> QED BY <2>1, <2>2, Entries, AppendProperties
<1>2. OwnGroups'
  BY <1>0 DEF Tracking, OwnGroups
<1>3. WaitedChildIsOurs'
  BY DEF WaitedChildIsOurs
<1>4. EntriesFollowChildren'
  <2> SUFFICES ASSUME ~ stolen
               PROVE  EntriesFollowChildren'
    BY DEF EntriesFollowChildren
  <2>1. \A i \in 1..Len(job_list) : job_list[i].pgid \in Pid \ {p}
    BY <1>0, Entries DEF Tracking, EntriesFollowChildren
  <2>2. ASSUME NEW i \in 1..Len(job_list')
        PROVE  LET q == job_list'[i].pgid
               IN  /\ proc'[q].st # "free" /\ proc'[q].pgid = q
                   /\ proc'[q].line = job_list'[i].line
    <3>1. CASE i = Len(job_list) + 1
      BY <1>0, <1>1, <3>1
    <3>2. CASE i # Len(job_list) + 1
      <4>1. i \in 1..Len(job_list)
        BY <1>1, <3>2, Entries
      <4> QED BY <1>0, <1>1, <2>1, <4>1 DEF Tracking, EntriesFollowChildren
    <3> QED BY <3>1, <3>2
  <2>3. ASSUME NEW i \in 1..Len(job_list'), NEW j \in 1..Len(job_list'),
               job_list'[i].pgid = job_list'[j].pgid
        PROVE  i = j
    <3>1. \A k \in 1..Len(job_list') : k \in 1..Len(job_list) \/ k = Len(job_list) + 1
      BY <1>1, Entries
    <3> QED BY <1>1, <2>1, <2>3, <3>1 DEF Tracking, EntriesFollowChildren
  <2> QED BY <2>2, <2>3 DEF EntriesFollowChildren
<1>5. BackgroundChildIsListed'
  <2>1. ASSUME NEW q \in Pid, proc'[q].st # "free", proc'[q].pgid = q
        PROVE  \E i \in 1..Len(job_list') : job_list'[i].pgid = q
    <3>1. CASE q = p
      <4>1. Len(job_list) + 1 \in 1..Len(job_list')
        BY <1>1, Entries
      <4> QED BY <1>1, <3>1, <4>1
    <3>2. CASE q # p
      <4>1. PICK i \in 1..Len(job_list) : job_list[i].pgid = q
        BY <1>0, <2>1, <3>2 DEF Tracking, BackgroundChildIsListed, Children, FreePids
      <4>2. i \in 1..Len(job_list')
        BY <1>1, Entries
      <4> QED BY <1>1, <4>1, <4>2
    <3> QED BY <3>1, <3>2
  <2> QED BY <2>1 DEF BackgroundChildIsListed, Children, FreePids
<1> QED BY <1>2, <1>3, <1>4, <1>5 DEF Tracking

\* A wait call that leaves the table alone: it collects a child of the shell's own
\* group, or the history variable remembers that it took a job's child.
LEMMA CollectStep ==
  ASSUME TypeOK, Tracking, NEW p \in Pid, proc[p].st # "free", Reap(p),
         proc[p].pgid = ShellGroup \/ stolen',
         pc' \notin {"wait", "waitlast"} \/ (pc' = pc /\ pc = "waitall"),
         stolen => stolen', UNCHANGED job_list
  PROVE  Tracking'
<1>0. /\ \A q \in Pid : q # p => proc'[q] = proc[q]
      /\ proc'[p].st = "free" /\ proc'[p].pgid = ShellGroup
  BY DEF TypeOK, Reap, Free
<1>1. OwnGroups'
  BY <1>0 DEF Tracking, OwnGroups
<1>2. WaitedChildIsOurs'
  BY DEF WaitedChildIsOurs
<1>3. EntriesFollowChildren'
  BY <1>0, Entries, PidAssumption DEF Tracking, EntriesFollowChildren
<1>4. BackgroundChildIsListed'
  BY <1>0 DEF Tracking, BackgroundChildIsListed, Children, FreePids
<1> QED BY <1>1, <1>2, <1>3, <1>4 DEF Tracking

\* print_job_status takes an ended child and its entry.
LEMMA ReportStep ==
  ASSUME TypeOK, Tracking, NEW i \in 1..Len(job_list), NEW p \in Zombies,
         proc[p].pgid = job_list[i].pgid, Reap(p), remove_job(i),
         pc = "status", UNCHANGED <<pc, stolen>>
  PROVE  Tracking'
<1>0. /\ p \in Pid /\ proc[p].st # "free" /\ proc[p].pgid = p
      /\ \A q \in Pid : q # p => proc'[q] = proc[q]
      /\ proc'[p].st = "free" /\ proc'[p].pgid = ShellGroup
  <2>1. proc[p].pgid \in {p, ShellGroup} /\ proc[p].pgid \in Pid
    BY Entries DEF Tracking, OwnGroups, Zombies
  <2> QED BY <2>1, PidAssumption DEF TypeOK, Reap, Free, Zombies
<1>1. /\ Len(job_list') = Len(job_list) - 1
      /\ \A k \in 1..Len(job_list) - 1 :
           job_list'[k] = IF k < i THEN job_list[k] ELSE job_list[k + 1]
  BY Entries, RemoveAtProperties DEF remove_job
<1>2. OwnGroups'
  BY <1>0 DEF Tracking, OwnGroups
<1>3. WaitedChildIsOurs'
  BY DEF WaitedChildIsOurs
<1> DEFINE Old(k) == IF k < i THEN k ELSE k + 1
<1>4. \A k \in 1..Len(job_list') : /\ Old(k) \in 1..Len(job_list) \ {i}
                                   /\ job_list'[k] = job_list[Old(k)]
  BY <1>1, Entries
<1>5. \A k, l \in 1..Len(job_list') : Old(k) = Old(l) => k = l
  BY <1>1, Entries
<1>6. \A k \in 1..Len(job_list) : k # i => \E l \in 1..Len(job_list') : Old(l) = k
  <2>1. ASSUME NEW k \in 1..Len(job_list), k # i
        PROVE  \E l \in 1..Len(job_list') : Old(l) = k
    <3>1. CASE k < i
      <4>1. k \in 1..Len(job_list') /\ Old(k) = k
        BY <1>1, <3>1, Entries
      <4> QED BY <4>1
    <3>2. CASE k > i
      <4>1. k - 1 \in 1..Len(job_list') /\ Old(k - 1) = k
        BY <1>1, <3>2, Entries
      <4> QED BY <4>1
    <3> QED BY <2>1, <3>1, <3>2, Entries
  <2> QED BY <2>1
<1> HIDE DEF Old
<1>7. EntriesFollowChildren'
  <2> SUFFICES ASSUME ~ stolen
               PROVE  EntriesFollowChildren'
    BY DEF EntriesFollowChildren
  <2>1. \A k \in 1..Len(job_list) : k # i => job_list[k].pgid \in Pid \ {p}
    BY <1>0, Entries DEF Tracking, EntriesFollowChildren
  <2>2. ASSUME NEW k \in 1..Len(job_list')
        PROVE  LET q == job_list'[k].pgid
               IN  /\ proc'[q].st # "free" /\ proc'[q].pgid = q
                   /\ proc'[q].line = job_list'[k].line
    <3>1. PICK j \in 1..Len(job_list) : j # i /\ job_list'[k] = job_list[j]
      BY <1>4
    <3>2. job_list[j].pgid \in Pid \ {p}
      BY <2>1, <3>1
    <3>3. LET q == job_list[j].pgid
          IN  proc[q].st # "free" /\ proc[q].pgid = q /\ proc[q].line = job_list[j].line
      BY DEF Tracking, EntriesFollowChildren
    <3> QED BY <1>0, <3>1, <3>2, <3>3
  <2>3. ASSUME NEW k \in 1..Len(job_list'), NEW l \in 1..Len(job_list'),
               job_list'[k].pgid = job_list'[l].pgid
        PROVE  k = l
    <3>1. PICK m \in 1..Len(job_list) : m = Old(k) /\ job_list'[k] = job_list[m]
      BY <1>4
    <3>2. PICK n \in 1..Len(job_list) : n = Old(l) /\ job_list'[l] = job_list[n]
      BY <1>4
    <3>3. \A a, b \in 1..Len(job_list) : job_list[a].pgid = job_list[b].pgid => a = b
      BY DEF Tracking, EntriesFollowChildren
    <3>4. m = n
      BY <2>3, <3>1, <3>2, <3>3
    <3> QED BY <1>5, <3>1, <3>2, <3>4
  <2> QED BY <2>2, <2>3 DEF EntriesFollowChildren
<1>8. BackgroundChildIsListed'
  <2>1. ASSUME NEW q \in Pid, proc'[q].st # "free", proc'[q].pgid = q
        PROVE  \E k \in 1..Len(job_list') : job_list'[k].pgid = q
    <3>1. q # p /\ proc[q].st # "free" /\ proc[q].pgid = q
      BY <1>0, <2>1
    <3>2. PICK k \in 1..Len(job_list) : job_list[k].pgid = q
      BY <3>1 DEF Tracking, BackgroundChildIsListed, Children, FreePids
    <3>3. k # i
      BY <1>0, <3>1, <3>2
    <3> QED BY <1>4, <1>6, <3>2, <3>3
  <2> QED BY <2>1 DEF BackgroundChildIsListed, Children, FreePids
<1> QED BY <1>2, <1>3, <1>7, <1>8 DEF Tracking

LEMMA TrackingStep ==
  ASSUME TypeOK, Tracking, [Next]_vars
  PROVE  Tracking'
<1>0. line' \in Nat /\ \A p \in Pid : proc[p].pgid \in {p, ShellGroup}
  BY TypeStep, BoundAssumption DEF TypeOK, Tracking, OwnGroups
<1>1. CASE UNCHANGED vars
  BY <1>1, QuietStep DEF vars, shell
<1>2. CASE Environment
  BY <1>2, EnvironmentStep
<1>3. CASE EmptyLine \/ Refused \/ Builtin \/ Exit \/ Pipeline
  <2>1. UNCHANGED <<job_list, proc, stolen>> /\ pc' \notin {"wait", "waitlast"}
    BY <1>3 DEF EmptyLine, Again, Refused, Builtin, Exit, Pipeline
  <2> QED BY <2>1, QuietStep
<1>4. CASE Prompt \/ ExitReturns \/ PipelineDone \/ EndOfLine \/ Loop
  <2>1. UNCHANGED <<job_list, proc, stolen>> /\ pc' \notin {"wait", "waitlast"}
    BY <1>4 DEF Prompt, ExitReturns, PipelineDone, EndOfLine, Loop, Again
  <2> QED BY <2>1, QuietStep
<1>5. CASE PrintJobStatus
  <2>1. CASE UNCHANGED <<job_list, proc>>
    BY <1>5, <2>1, QuietStep DEF PrintJobStatus
  <2>2. ASSUME NEW p \in Zombies, proc[p].pgid = job_list[job].pgid,
               Reap(p), remove_job(job)
        PROVE  Tracking'
    <3>1. job \in 1..Len(job_list)
      BY <1>5, Entries DEF TypeOK, PrintJobStatus
    <3> QED BY <1>5, <2>2, <3>1, ReportStep DEF PrintJobStatus
  <2> QED BY <1>5, <2>1, <2>2 DEF PrintJobStatus
<1>6. CASE Background
  <2>1. CASE UNCHANGED <<job_list, proc>> /\ pc' = "done"
    BY <1>6, <2>1, QuietStep DEF Background
  <2>2. ASSUME NEW p \in FreePids, proc' = [proc EXCEPT ![p] = Started(p, line')],
               add_job(p, line'), pc' = "next"
        PROVE  Tracking'
    BY <1>0, <1>6, <2>2, BackgroundForkStep DEF Background
  <2> QED BY <1>6, <2>1, <2>2 DEF Background
<1>7. CASE Foreground
  <2>1. CASE pc' = "done" /\ UNCHANGED <<proc, pid>>
    BY <1>7, <2>1, QuietStep DEF Foreground
  <2>2. ASSUME NEW p \in FreePids, pid' = p,
               proc' = [proc EXCEPT ![p] = Started(ShellGroup, line')]
        PROVE  Tracking'
    BY <1>7, <2>2, ForegroundForkStep DEF Foreground
  <2> QED BY <1>7, <2>1, <2>2 DEF Foreground
<1>8. CASE PipelineFork
  <2>1. CASE pc' = "done" /\ UNCHANGED <<proc, pid>>
    BY <1>8, <2>1, QuietStep DEF PipelineFork
  <2>2. ASSUME NEW p \in FreePids, pid' = p,
               proc' = [proc EXCEPT ![p] = Started(ShellGroup, line)]
        PROVE  Tracking'
    <3>1. line' = line
      BY <1>8 DEF PipelineFork
    <3> QED BY <1>8, <2>2, <3>1, ForegroundForkStep DEF PipelineFork
  <2> QED BY <1>8, <2>1, <2>2 DEF PipelineFork
<1>9. CASE Wait \/ PipelineWaitLast
  <2>1. /\ pc \in {"wait", "waitlast"} /\ pid \in Pid /\ proc[pid].st # "free"
        /\ Reap(pid) /\ pc' \in {"next", "waitall"}
        /\ UNCHANGED <<job_list, stolen>>
    BY <1>9 DEF Wait, PipelineWaitLast, Zombies
  <2>2. proc[pid].pgid = ShellGroup
    BY <2>1 DEF Tracking, WaitedChildIsOurs
  <2> QED BY <2>1, <2>2, CollectStep
<1>10. CASE PipelineWaitAny
  <2>1. PICK p \in Zombies : Reap(p) /\ stolen' = (stolen \/ proc[p].pgid = p)
    BY <1>10 DEF PipelineWaitAny
  <2>2. p \in Pid /\ proc[p].st # "free"
    BY DEF Zombies
  <2>3. proc[p].pgid = ShellGroup \/ stolen'
    BY <1>0, <2>1, <2>2
  <2>4. stolen => stolen'
    BY <2>1
  <2>5. pc = "waitall" /\ pc' = pc /\ UNCHANGED job_list
    BY <1>10 DEF PipelineWaitAny
  <2> QED BY <2>1, <2>2, <2>3, <2>4, <2>5, CollectStep
<1> QED BY <1>1, <1>2, <1>3, <1>4, <1>5, <1>6, <1>7, <1>8, <1>9, <1>10
        DEF Next, ShellStep, Input

-----------------------------------------------------------------------------
(* The inductive invariant and what follows from it.                       *)

LEMMA InvInit == Init => IInv
<1> SUFFICES ASSUME Init PROVE IInv
  OBVIOUS
<1>1. Len(job_list) = 0 /\ 1..0 = {}
  BY EmptySeq DEF Init
<1>2. \A p \in Pid : proc[p] = Free
  BY DEF Init
<1>3. JobIdsAscend
  BY <1>1 DEF Init, JobIdsAscend
<1>4. OwnGroups /\ BackgroundChildIsListed
  BY <1>2 DEF OwnGroups, BackgroundChildIsListed, Children, FreePids, Free
<1>5. WaitedChildIsOurs
  BY DEF Init, WaitedChildIsOurs
<1>6. EntriesFollowChildren
  BY <1>1 DEF EntriesFollowChildren
<1> QED BY TypeInit, <1>3, <1>4, <1>5, <1>6 DEF IInv

LEMMA InvStep == IInv /\ [Next]_vars => IInv'
<1> SUFFICES ASSUME IInv, [Next]_vars PROVE IInv'
  OBVIOUS
<1>1. TypeOK' /\ JobIdsAscend'
  BY TypeStep, JobIdsStep DEF IInv
<1>2. Tracking'
  BY TrackingStep DEF IInv, Tracking
<1> QED BY <1>1, <1>2 DEF IInv, Tracking

THEOREM Invariance == Spec => []IInv
<1> QED BY InvInit, InvStep, PTL DEF Spec

\* Job ids are ascending and start again at 1 only in an empty table.
THEOREM JobIdsAreUnique == Spec => []JobIdsAscend
<1>1. IInv => JobIdsAscend
  BY DEF IInv
<1> QED BY <1>1, Invariance, PTL

\* waitpid(pid) in the foreground always has its child to wait for.
THEOREM ForegroundWaitIsSound == Spec => []WaitedChildIsOurs
<1>1. IInv => WaitedChildIsOurs
  BY DEF IInv
<1> QED BY <1>1, Invariance, PTL

\* Until a pipeline collects a job, every entry has its own child behind it.
THEOREM TableFollowsChildren == Spec => []EntriesFollowChildren
<1>1. IInv => EntriesFollowChildren
  BY DEF IInv
<1> QED BY <1>1, Invariance, PTL

\* No background process is lost from the table, whatever pipelines collect.
THEOREM NoBackgroundChildIsLost == Spec => []BackgroundChildIsListed
<1>1. IInv => BackgroundChildIsListed
  BY DEF IInv
<1> QED BY <1>1, Invariance, PTL

-----------------------------------------------------------------------------
(* The report of a job.                                                    *)

\* In a table of distinct jobs the entry that left is determined by the result.
LEMMA RemovedEntry ==
  ASSUME TypeOK, JobIdsAscend, NEW i \in 1..Len(job_list), NEW j \in 1..Len(job_list),
         RemoveAt(job_list, i) = RemoveAt(job_list, j)
  PROVE  i = j
<1> DEFINE s == job_list
<1>1. ASSUME NEW k \in 1..Len(s), NEW l \in 1..Len(s), k < l,
             RemoveAt(s, k) = RemoveAt(s, l)
      PROVE  FALSE
  <2>1. k \in 1..Len(s) - 1 /\ k + 1 \in 1..Len(s)
    BY <1>1, Entries
  <2>2. RemoveAt(s, k)[k] = s[k + 1] /\ RemoveAt(s, l)[k] = s[k]
    <3>1. \A m \in 1..Len(s), n \in 1..Len(s) - 1 :
            RemoveAt(s, m)[n] = IF n < m THEN s[n] ELSE s[n + 1]
      BY Entries, RemoveAtProperties
    <3>2. ~ (k < k)
      BY <2>1, Entries
    <3> QED BY <1>1, <2>1, <3>1, <3>2
  <2>3. s[k].job_id < s[k + 1].job_id
    BY <2>1, Entries DEF JobIdsAscend
  <2> QED BY <1>1, <2>1, <2>2, <2>3, Entries
<1> QED BY <1>1, Entries

LEMMA ReportNamesItsJob ==
  ASSUME IInv, [Next]_vars, NEW i \in 1..Len(job_list), ~ stolen,
         job_list' = RemoveAt(job_list, i)
  PROVE  \E p \in Zombies : proc'[p].st = "free" /\ proc[p].line = job_list[i].line
<1>0. TypeOK /\ JobIdsAscend /\ EntriesFollowChildren /\ OwnGroups
  BY DEF IInv
<1>1. Len(job_list') = Len(job_list) - 1
  BY <1>0, Entries, RemoveAtProperties
<1>2. job_list' # job_list
  BY <1>0, <1>1, Entries
<1>3. ASSUME NEW p \in Pid, add_job(p, line')
      PROVE  FALSE
  <2> DEFINE new == [job_id |-> next_job_id, pgid |-> p, line |-> line']
  <2>1. new \in Job
    BY <1>0, TypeStep DEF TypeOK, Job
  <2>2. job_list' = Append(job_list, new)
    BY <1>3 DEF add_job
  <2> HIDE DEF new
  <2> QED BY <1>0, <1>1, <2>1, <2>2, Entries, AppendProperties
<1>4. PICK p \in Zombies : /\ proc[p].pgid = job_list[job].pgid
                           /\ Reap(p)
                           /\ remove_job(job)
                           /\ job \in 1..Len(job_list)
  <2>1. CASE PrintJobStatus
    BY <1>0, <1>2, <2>1, Entries DEF PrintJobStatus, TypeOK
  <2>2. CASE Background
    BY <1>2, <1>3, <2>2 DEF Background, FreePids
  <2>3. CASE UNCHANGED vars
    BY <1>2, <2>3 DEF vars
  <2>4. CASE Environment
    BY <1>0, <1>2, <2>4, ChildrenKeepIdentity
  <2>5. CASE EmptyLine \/ Refused \/ Builtin \/ Exit \/ Foreground \/ Pipeline
    BY <1>2, <2>5 DEF EmptyLine, Refused, Builtin, Exit, Foreground, Pipeline
  <2>6. CASE Prompt \/ ExitReturns \/ Wait \/ PipelineFork \/ PipelineWaitLast \/ PipelineWaitAny
             \/ PipelineDone \/ EndOfLine \/ Loop
    BY <1>2, <2>6 DEF Prompt, ExitReturns, Wait, PipelineFork, PipelineWaitLast, PipelineWaitAny,
                      PipelineDone, EndOfLine, Loop
  <2> QED BY <2>1, <2>2, <2>3, <2>4, <2>5, <2>6 DEF Next, ShellStep, Input
<1>5. i = job
  BY <1>0, <1>4, RemovedEntry DEF remove_job
<1>6. proc[p].pgid = p
  <2>1. p \in Pid /\ proc[p].pgid \in Pid
    BY <1>0, <1>4, Entries DEF Zombies
  <2> QED BY <1>0, <2>1, PidAssumption DEF OwnGroups
<1>7. proc'[p].st = "free"
  BY <1>0, <1>4 DEF Reap, Free, TypeOK, Zombies
<1>8. proc[p].line = job_list[i].line
  BY <1>0, <1>4, <1>5, <1>6 DEF EntriesFollowChildren
<1> QED BY <1>7, <1>8

\* The Done line printed for an entry is about the process started for it.
THEOREM DoneIsRight == Spec => DoneNamesItsJob
<1>1. IInv /\ [Next]_vars =>
        \A i \in 1..Len(job_list) :
          ~ stolen /\ job_list' = RemoveAt(job_list, i) =>
            \E p \in Zombies : proc'[p].st = "free" /\ proc[p].line = job_list[i].line
  BY ReportNamesItsJob
<1> QED BY <1>1, Invariance, PTL DEF Spec, DoneNamesItsJob

-----------------------------------------------------------------------------
(* Ctrl-C and the jobs of the table. What the terminal signals are the      *)
(* children of the shell's group, and an entry can name one of those only   *)
(* after its own child was collected by a pipeline and the pid used again,  *)
(* by a command that was entered later.                                     *)

\* The commands are numbered in the order they were entered, the table's jobs too.
EntriesAreEarlier ==
  \A i \in 1..Len(job_list) :
    /\ job_list[i].line <= line
    /\ pc = "fork" => job_list[i].line < line

\* A child of the shell's group under the pid of an entry is not that entry's.
StrangersDiffer ==
  \A i \in 1..Len(job_list) :
    LET p == job_list[i].pgid
    IN  proc[p].st # "free" /\ proc[p].pgid = ShellGroup => proc[p].line # job_list[i].line

Ages == EntriesAreEarlier /\ StrangersDiffer

\* A step that starts no command: the table loses at most an entry, and a child keeps
\* its group and its line or is collected.
LEMMA AgesKept ==
  ASSUME TypeOK, Ages, UNCHANGED line, pc' = "fork" => pc = "fork",
         \/ UNCHANGED job_list
         \/ \E i \in 1..Len(job_list) : remove_job(i),
         \A p \in Pid : \/ proc'[p].st = "free"
                        \/ /\ proc[p].st # "free"
                           /\ proc'[p].pgid = proc[p].pgid
                           /\ proc'[p].line = proc[p].line
  PROVE  Ages'
<1>1. ASSUME NEW k \in 1..Len(job_list')
      PROVE  \E j \in 1..Len(job_list) : job_list'[k] = job_list[j]
  <2>1. CASE UNCHANGED job_list
    BY <2>1
  <2>2. ASSUME NEW i \in 1..Len(job_list), remove_job(i)
        PROVE  \E j \in 1..Len(job_list) : job_list'[k] = job_list[j]
    <3>1. /\ Len(job_list') = Len(job_list) - 1
          /\ \A m \in 1..Len(job_list) - 1 :
               job_list'[m] = IF m < i THEN job_list[m] ELSE job_list[m + 1]
      BY <2>2, Entries, RemoveAtProperties DEF remove_job
    <3>2. k \in 1..Len(job_list) /\ k + 1 \in 1..Len(job_list)
      BY <3>1, Entries
    <3> QED BY <1>1, <3>1, <3>2
  <2> QED BY <2>1, <2>2
<1>2. EntriesAreEarlier'
  BY <1>1 DEF Ages, EntriesAreEarlier
<1>3. StrangersDiffer'
  <2> SUFFICES ASSUME NEW k \in 1..Len(job_list'), proc'[job_list'[k].pgid].st # "free",
                      proc'[job_list'[k].pgid].pgid = ShellGroup
               PROVE  proc'[job_list'[k].pgid].line # job_list'[k].line
    BY DEF StrangersDiffer
  <2>1. PICK j \in 1..Len(job_list) : job_list'[k] = job_list[j]
    BY <1>1
  <2>2. job_list[j].pgid \in Pid
    BY Entries
  <2> QED BY <2>1, <2>2 DEF Ages, StrangersDiffer
<1> QED BY <1>2, <1>3 DEF Ages

\* A command of the shell's own group is started, of a line no entry has yet.
LEMMA AgesAtFork ==
  ASSUME TypeOK, Ages, NEW p \in Pid, proc' = [proc EXCEPT ![p] = Started(ShellGroup, line')],
         UNCHANGED job_list, line' \in Nat,
         \/ line' = line + 1 /\ pc' # "fork"
         \/ line' = line /\ pc = "fork"
  PROVE  Ages'
<1>1. line \in Nat
  BY BoundAssumption DEF TypeOK
<1>2. \A i \in 1..Len(job_list) : job_list[i].line < line'
  BY <1>1, Entries DEF Ages, EntriesAreEarlier
<1>3. EntriesAreEarlier'
  BY <1>1, <1>2, Entries DEF EntriesAreEarlier
<1>4. /\ proc'[p].line = line'
      /\ \A q \in Pid : q # p => proc'[q] = proc[q]
  BY DEF TypeOK, Started
<1>5. StrangersDiffer'
  BY <1>1, <1>2, <1>4, Entries DEF Ages, StrangersDiffer
<1> QED BY <1>3, <1>5 DEF Ages

\* A job is added, with a child that leads its own group.
LEMMA AgesAtAdd ==
  ASSUME TypeOK, Ages, NEW p \in Pid, proc' = [proc EXCEPT ![p] = Started(p, line')],
         add_job(p, line'), line' = line + 1, pc' = "next"
  PROVE  Ages'
<1> DEFINE new == [job_id |-> next_job_id, pgid |-> p, line |-> line']
<1>1. line \in Nat /\ line' \in Nat
  BY BoundAssumption DEF TypeOK
<1>2. new \in Job /\ new.line = line' /\ new.pgid = p /\ job_list' = Append(job_list, new)
  BY <1>1 DEF TypeOK, Job, add_job
<1> HIDE DEF new
<1>3. /\ Len(job_list') = Len(job_list) + 1
      /\ \A i \in 1..Len(job_list) : job_list'[i] = job_list[i]
      /\ job_list'[Len(job_list) + 1] = new
  BY <1>2, Entries, AppendProperties
<1>4. \A i \in 1..Len(job_list') : i \in 1..Len(job_list) \/ i = Len(job_list) + 1
  BY <1>3, Entries
<1>5. EntriesAreEarlier'
  BY <1>1, <1>2, <1>3, <1>4, Entries DEF Ages, EntriesAreEarlier
<1>6. /\ proc'[p].pgid # ShellGroup
      /\ \A q \in Pid : q # p => proc'[q] = proc[q]
  BY PidAssumption DEF TypeOK, Started
<1>7. StrangersDiffer'
  <2> SUFFICES ASSUME NEW i \in 1..Len(job_list'), job_list'[i].pgid # p
               PROVE  LET q == job_list'[i].pgid
                      IN  proc'[q].st # "free" /\ proc'[q].pgid = ShellGroup
                            => proc'[q].line # job_list'[i].line
    BY <1>6 DEF StrangersDiffer
  <2>1. i \in 1..Len(job_list) /\ job_list'[i] = job_list[i]
    BY <1>2, <1>3, <1>4
  <2> QED BY <1>6, <2>1, Entries DEF Ages, StrangersDiffer
<1> QED BY <1>5, <1>7 DEF Ages

LEMMA AgesStep ==
  ASSUME TypeOK, Ages, [Next]_vars
  PROVE  Ages'
<1>0. line \in Nat /\ line' \in Nat
  BY TypeStep, BoundAssumption DEF TypeOK
<1>1. CASE UNCHANGED vars
  BY <1>1 DEF vars, shell, Ages, EntriesAreEarlier, StrangersDiffer
<1>2. CASE Environment
  BY <1>2, ChildrenKeepIdentity, AgesKept
<1>3. CASE EmptyLine \/ Prompt \/ ExitReturns \/ PipelineDone \/ EndOfLine \/ Loop
  <2>1. UNCHANGED <<line, job_list, proc>> /\ pc' # "fork"
    BY <1>3 DEF EmptyLine, Prompt, ExitReturns, PipelineDone, EndOfLine, Loop, Again
  <2> QED BY <2>1, AgesKept
<1>4. CASE PrintJobStatus
  <2>1. UNCHANGED <<line, pc>>
    BY <1>4 DEF PrintJobStatus
  <2>2. CASE UNCHANGED <<job_list, proc>>
    BY <2>1, <2>2, AgesKept
  <2>3. ASSUME NEW p \in Zombies, Reap(p), remove_job(job)
        PROVE  Ages'
    <3>1. job \in 1..Len(job_list)
      BY <1>4, Entries DEF TypeOK, PrintJobStatus
    <3>2. \A q \in Pid : proc'[q].st = "free" \/ (proc'[q] = proc[q] /\ proc[q].st # "free")
      BY <2>3 DEF TypeOK, Reap, Free
    <3> QED BY <2>1, <2>3, <3>1, <3>2, AgesKept
  <2> QED BY <1>4, <2>2, <2>3 DEF PrintJobStatus
<1>5. CASE Wait \/ PipelineWaitLast \/ PipelineWaitAny
  <2>1. PICK p \in Pid : Reap(p)
    BY <1>5 DEF TypeOK, Wait, PipelineWaitLast, PipelineWaitAny, Zombies
  <2>2. \A q \in Pid : proc'[q].st = "free" \/ (proc'[q] = proc[q] /\ proc[q].st # "free")
    BY <2>1 DEF TypeOK, Reap, Free
  <2>3. UNCHANGED <<line, job_list>> /\ pc' # "fork"
    BY <1>5 DEF Wait, PipelineWaitLast, PipelineWaitAny
  <2> QED BY <2>2, <2>3, AgesKept
<1>6. ASSUME UNCHANGED <<job_list, proc>>, line' = line + 1
      PROVE  Ages'
  <2>1. EntriesAreEarlier'
    BY <1>0, <1>6, Entries DEF Ages, EntriesAreEarlier
  <2>2. StrangersDiffer'
    BY <1>6 DEF Ages, StrangersDiffer
  <2> QED BY <2>1, <2>2 DEF Ages
<1>7. CASE Refused \/ Builtin \/ Exit \/ Pipeline
  BY <1>6, <1>7 DEF Refused, Builtin, Exit, Pipeline, Command
<1>8. CASE Background
  <2>1. line' = line + 1
    BY <1>8 DEF Background, Command
  <2>2. CASE pc' = "done" /\ UNCHANGED <<job_list, proc>>
    BY <1>6, <2>1, <2>2
  <2>3. ASSUME NEW p \in FreePids, proc' = [proc EXCEPT ![p] = Started(p, line')],
               add_job(p, line'), pc' = "next"
        PROVE  Ages'
    BY <2>1, <2>3, AgesAtAdd DEF FreePids
  <2> QED BY <1>8, <2>2, <2>3 DEF Background
<1>9. CASE Foreground
  <2>1. line' = line + 1 /\ UNCHANGED job_list /\ pc' # "fork"
    BY <1>9 DEF Foreground, Command
  <2>2. CASE UNCHANGED proc
    BY <1>6, <2>1, <2>2
  <2>3. ASSUME NEW p \in FreePids, proc' = [proc EXCEPT ![p] = Started(ShellGroup, line')]
        PROVE  Ages'
    BY <1>0, <2>1, <2>3, AgesAtFork DEF FreePids
  <2> QED BY <1>9, <2>2, <2>3 DEF Foreground
<1>10. CASE PipelineFork
  <2>1. pc = "fork" /\ UNCHANGED <<line, job_list>>
    BY <1>10 DEF PipelineFork
  <2>2. CASE UNCHANGED proc
    BY <2>1, <2>2, AgesKept
  <2>3. ASSUME NEW p \in FreePids, proc' = [proc EXCEPT ![p] = Started(ShellGroup, line)]
        PROVE  Ages'
    BY <1>0, <2>1, <2>3, AgesAtFork DEF FreePids
  <2> QED BY <1>10, <2>2, <2>3 DEF PipelineFork
<1> QED BY <1>1, <1>2, <1>3, <1>4, <1>5, <1>7, <1>8, <1>9, <1>10
        DEF Next, ShellStep, Input

\* The two invariants hold in every behaviour.
THEOREM EntriesAreOlder == Spec => [](EntriesAreEarlier /\ StrangersDiffer)
<1>1. Init => Ages
  <2>1. ASSUME Init PROVE 1..Len(job_list) = {}
    BY <2>1, EmptySeq DEF Init
  <2> QED BY <2>1 DEF Ages, EntriesAreEarlier, StrangersDiffer
<1>2. TypeOK /\ Ages /\ [Next]_vars => Ages'
  BY AgesStep
<1>3. Ages => EntriesAreEarlier /\ StrangersDiffer
  BY DEF Ages
<1> QED BY <1>1, <1>2, <1>3, TypeCorrect, PTL DEF Spec

\* Ctrl-C spares the children of the table: an entry's own child is never in the
\* group that the terminal signals.
THEOREM JobsSurviveCtrlC == Spec => InterruptSparesJobs
<1>1. ASSUME TypeOK, EntriesAreEarlier /\ StrangersDiffer, [Next]_vars,
             keep_running, ~ keep_running', NEW i \in 1..Len(job_list),
             proc[job_list[i].pgid].line = job_list[i].line
      PROVE  proc'[job_list[i].pgid] = proc[job_list[i].pgid]
  <2> DEFINE p == job_list[i].pgid
  <2>0. p \in Pid
    BY <1>1, Entries
  <2>1. CASE Interrupt
    <3>1. proc'[p] = proc[p] \/ (proc[p].st = "running" /\ proc[p].pgid = ShellGroup)
      BY <2>0, <2>1 DEF Interrupt
    <3> QED BY <1>1, <3>1 DEF StrangersDiffer
  <2>2. CASE Exit
    BY <2>2 DEF Exit
  <2>3. ASSUME UNCHANGED keep_running
        PROVE  FALSE
    BY <1>1, <2>3
  <2>4. CASE Environment
    BY <2>1, <2>3, <2>4
       DEF Environment, ChildEnds, ChildStops, ChildContinues, shell
  <2>5. CASE EmptyLine \/ Refused \/ Builtin \/ Background \/ Foreground \/ Pipeline
    BY <2>3, <2>5 DEF EmptyLine, Refused, Builtin, Background, Foreground, Pipeline
  <2>6. CASE ShellStep
    BY <2>3, <2>6 DEF ShellStep, PrintJobStatus, Prompt, ExitReturns, Wait, PipelineFork,
                      PipelineWaitLast, PipelineWaitAny, PipelineDone, EndOfLine, Loop
  <2>7. CASE UNCHANGED vars
    BY <2>3, <2>7 DEF vars, shell
  <2> QED BY <1>1, <2>2, <2>4, <2>5, <2>6, <2>7 DEF Next, Input
<1>2. TypeOK /\ (EntriesAreEarlier /\ StrangersDiffer) /\ [Next]_vars =>
        (keep_running /\ ~ keep_running' =>
           \A i \in 1..Len(job_list) :
             LET p == job_list[i].pgid
             IN  proc[p].line = job_list[i].line => proc'[p] = proc[p])
  BY <1>1
<1> QED BY <1>2, TypeCorrect, EntriesAreOlder, PTL DEF Spec, InterruptSparesJobs

=============================================================================
