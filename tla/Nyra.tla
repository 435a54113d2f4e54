---------------------------------- MODULE Nyra ----------------------------------
(***************************************************************************)
(* The terminal's shell, userland/nyra.c: the command line and its         *)
(* history, the jobs it starts, stops, resumes and reaps, and what pipes   *)
(* and redirection do with a command's output.  A command is a line of     *)
(* characters; "p" alone runs a program in the foreground, "b" one in the  *)
(* background, "f" and "g" are fg and bg of the first job, and the lines   *)
(* of Scripts are pipelines.  One turn of the main loop handles a key,     *)
(* polls the foreground job or reaps the background ones.  The children    *)
(* are external: they run, exit when they like and obey signals, except    *)
(* that SIGSTOP does nothing to one that sleeps.  Leaving the shell, which *)
(* hands its children to the kernel's reaper, is not modelled.             *)
(***************************************************************************)
EXTENDS Integers, Sequences, SequencesExt, FiniteSets

CONSTANTS Keys,      \* characters typed
          LineLen,   \* LINE_LEN - 1
          History,   \* MAX_HISTORY
          Jobs,      \* MAX_JOBS
          Scripts,   \* pipelines: [stages, out]
          MaxPids,   \* bound: programs started
          MaxKeys    \* bound: keys

VARIABLES cmd,      \* G_cmd: the buffer, with what is left behind the end
          len,      \* G_cmd_len
          edit,     \* G_edit
          hist,     \* G_history
          hpos,     \* G_hist_pos
          line,     \* history variable: the line as the user sees it
          ran,      \* history variable: [typed, got] of the last Enter
          jobs,     \* G_jobs: sequence of [pid, stopped]
          fg,       \* G_fg_pid, 0 for none
          child,    \* pid -> "run", "stopped", "zombie" or "reaped"
          lost,     \* history variable: programs no job slot was left for
          pipebuf,  \* G_pipebuf
          files,    \* what redirection wrote: name -> contents
          shown,    \* history variable: what the last script displayed
          script,   \* history variable: the last script
          keys

editor == <<cmd, len, edit, hist, hpos, line, ran>>
control == <<jobs, fg, child, lost>>
output == <<pipebuf, files, shown, script>>
vars == <<editor, control, output, keys>>

Pid == 1 .. MaxPids
NoScript == [stages |-> << >>, out |-> "", stdin |-> << >>]

Init ==
  /\ cmd = [i \in 1 .. LineLen |-> ""] /\ len = 0 /\ edit = 0
  /\ hist = << >> /\ hpos = 0 /\ line = << >>
  /\ ran = [typed |-> << >>, got |-> << >>]
  /\ jobs = << >> /\ fg = 0 /\ child = << >> /\ lost = {}
  /\ pipebuf = << >> /\ files = [n \in {"f"} |-> << >>] /\ shown = << >>
  /\ script = NoScript
  /\ keys = 0

-----------------------------------------------------------------------------
(* Faulty variants of the definitions below.                               *)

(* The line is executed up to the end of what is in the buffer. *)
TakenWhole == SelectSeq(cmd, LAMBDA c : c # "")

(* The reaper leaves the jobs it knows as stopped alone. *)
PolledRunning(j) == j.pid # fg /\ ~j.stopped

(* The right side of a pipe reads what the one before it read. *)
FeedOld(out, old) == old

-----------------------------------------------------------------------------
(* The buffer.  xmemmove moves the part behind the cursor; nothing writes a *)
(* terminator, so old characters stay behind the end.                      *)

Key == /\ keys < MaxKeys /\ keys' = keys + 1

Seen(n) == SubSeq(cmd, 1, n)

Insert(ch) ==
  /\ Key
  /\ IF len >= LineLen THEN UNCHANGED <<cmd, len, edit, line>>
     ELSE /\ cmd' = [i \in 1 .. LineLen |->
                       IF i = edit + 1 THEN ch
                       ELSE IF i > edit + 1 /\ i <= len + 1 THEN cmd[i - 1] ELSE cmd[i]]
          /\ len' = len + 1 /\ edit' = edit + 1
          /\ line' = InsertAt(line, edit + 1, ch)
  /\ UNCHANGED <<hist, hpos, ran, control, output>>

(* cmd_backspace and cmd_delete: the character at position at goes *)
RemoveAt2(at, newEdit) ==
  /\ cmd' = [i \in 1 .. LineLen |-> IF i >= at /\ i < len THEN cmd[i + 1] ELSE cmd[i]]
  /\ len' = len - 1 /\ edit' = newEdit
  /\ line' = RemoveAt(line, at)

Backspace ==
  /\ Key
  /\ edit > 0 /\ RemoveAt2(edit, edit - 1)
  /\ UNCHANGED <<hist, hpos, ran, control, output>>

Delete ==
  /\ Key
  /\ edit < len /\ RemoveAt2(edit + 1, edit)
  /\ UNCHANGED <<hist, hpos, ran, control, output>>

(* Left, Right, Home, End, Ctrl+A and Ctrl+E *)
Move ==
  /\ Key
  /\ edit' \in {edit - 1, edit + 1, 0, len} /\ edit' \in 0 .. len
  /\ UNCHANGED <<cmd, len, hist, hpos, line, ran, control, output>>

(* Ctrl+U and Ctrl+K *)
KillLine ==
  /\ Key
  /\ \/ len' = 0 /\ edit' = 0 /\ line' = << >>
        /\ cmd' = [cmd EXCEPT ![1] = ""]
     \/ len' = edit /\ edit' = edit /\ line' = SubSeq(line, 1, edit)
        /\ cmd' = IF edit < LineLen THEN [cmd EXCEPT ![edit + 1] = ""] ELSE cmd
  /\ UNCHANGED <<hist, hpos, ran, control, output>>

(* Up and Down: strncpy clears the rest of the buffer *)
Recalled(h) == [i \in 1 .. LineLen |-> IF i <= Len(h) THEN h[i] ELSE ""]

Recall(p) ==
  /\ hpos' = p /\ cmd' = Recalled(hist[p + 1])
  /\ len' = Len(hist[p + 1]) /\ edit' = Len(hist[p + 1]) /\ line' = hist[p + 1]

Up ==
  /\ Key
  /\ hpos > 0 /\ Recall(hpos - 1)
  /\ UNCHANGED <<hist, ran, control, output>>

Down ==
  /\ Key
  /\ \/ hpos + 1 < Len(hist) /\ Recall(hpos + 1)
     \/ /\ hpos + 1 >= Len(hist)
        /\ hpos' = Len(hist) /\ len' = 0 /\ edit' = 0 /\ line' = << >>
        /\ cmd' = [cmd EXCEPT ![1] = ""]
  /\ UNCHANGED <<hist, ran, control, output>>

-----------------------------------------------------------------------------
(* Jobs.                                                                   *)

Start(bg) ==
  IF Len(child) >= MaxPids THEN UNCHANGED control     \* fork failed
  ELSE LET pid == Len(child) + 1
           full == Len(jobs) >= Jobs
       IN  /\ child' = Append(child, "run")
           /\ jobs' = IF full THEN jobs ELSE Append(jobs, [pid |-> pid, stopped |-> FALSE])
           /\ lost' = IF full /\ bg THEN lost \union {pid} ELSE lost
           /\ fg' = IF bg THEN fg ELSE pid

Cont(pid) == IF child[pid] = "stopped" THEN [child EXCEPT ![pid] = "run"] ELSE child

Foreground ==
  IF jobs = << >> THEN UNCHANGED control
  ELSE /\ child' = IF jobs[1].stopped THEN Cont(jobs[1].pid) ELSE child
       /\ jobs' = [jobs EXCEPT ![1].stopped = FALSE]
       /\ fg' = jobs[1].pid
       /\ UNCHANGED lost

Background ==
  IF jobs = << >> \/ ~jobs[1].stopped THEN UNCHANGED control
  ELSE /\ child' = Cont(jobs[1].pid)
       /\ jobs' = [jobs EXCEPT ![1].stopped = FALSE]
       /\ UNCHANGED <<fg, lost>>

-----------------------------------------------------------------------------
(* run_segment.  A stage is <<"echo", x>>, <<"cat">> of the pipe or        *)
(* <<"read">>, cat of the file f by input redirection, which goes through  *)
(* the pipe's buffer.  A stage's output is captured for the next one, and  *)
(* the last one's goes to the terminal or, after >, to the file.           *)

Feed(out, old) == out

Output(stage, buf) ==
  CASE stage[1] = "echo" -> <<stage[2]>> [] stage[1] = "read" -> files["f"] [] OTHER -> buf

(* the pipe buffer in front of each stage, starting from what is in it     *)
Buffers(stages) ==
  FoldLeft(LAMBDA bufs, st : Append(bufs, Feed(Output(st, Last(bufs)), Last(bufs))),
           <<pipebuf>>, SubSeq(stages, 1, Len(stages) - 1))

RunScript(s) ==
  LET bufs == Buffers(s.stages)
      out == Output(Last(s.stages), Last(bufs))
  IN  /\ pipebuf' = IF Last(s.stages)[1] = "read" THEN out ELSE Last(bufs)
      /\ files' = IF s.out = "" THEN files ELSE [files EXCEPT ![s.out] = out]
      /\ shown' = IF s.out = "" THEN out ELSE << >>
      /\ script' = [stages |-> s.stages, out |-> s.out, stdin |-> files["f"]]

-----------------------------------------------------------------------------
(* Enter: the line is cut at its length, remembered and executed; while a  *)
(* foreground job runs it is refused.                                      *)

Taken == SubSeq(cmd, 1, len)

Remember(l) ==
  IF Len(hist) < History THEN Append(hist, l) ELSE Append(Tail(hist), l)

Execute(l) ==
  \/ l = <<"p">> /\ Start(FALSE) /\ UNCHANGED output
  \/ l = <<"b">> /\ Start(TRUE) /\ UNCHANGED output
  \/ l = <<"f">> /\ Foreground /\ UNCHANGED output
  \/ l = <<"g">> /\ Background /\ UNCHANGED output
  \/ l = <<"s">> /\ (\E s \in Scripts : RunScript(s)) /\ UNCHANGED control
  \/ l \notin {<<"p">>, <<"b">>, <<"f">>, <<"g">>, <<"s">>}
       /\ UNCHANGED <<control, output>>

(* prompt_print *)
FreshPrompt == cmd' = [cmd EXCEPT ![1] = ""] /\ len' = 0 /\ edit' = 0 /\ line' = << >>

Enter ==
  /\ Key
  /\ fg = 0
  /\ ran' = [typed |-> line, got |-> Taken]
  /\ IF Taken = << >> THEN UNCHANGED <<hist, hpos, control, output>>
     ELSE /\ hist' = Remember(Taken) /\ hpos' = Len(hist')
          /\ Execute(Taken)
  /\ FreshPrompt

(* Escape, Ctrl+L and, with no foreground job, Ctrl+C *)
Cancel ==
  /\ Key
  /\ FreshPrompt
  /\ UNCHANGED <<control, hist, hpos, ran, output>>

(* Ctrl+C: SIGINT to the foreground job, which ends when it next runs *)
CtrlC ==
  /\ Key
  /\ fg # 0
  /\ \/ child[fg] = "run" /\ child' = [child EXCEPT ![fg] = "zombie"]
     \/ UNCHANGED child
  /\ UNCHANGED <<jobs, fg, lost, editor, output>>

Tracked(pid) == \E i \in DOMAIN jobs : jobs[i].pid = pid

Flagged(js, pid) ==
  [i \in DOMAIN js |-> IF js[i].pid = pid THEN [js[i] EXCEPT !.stopped = TRUE] ELSE js[i]]

(* the foreground job goes to the background; without a slot it is lost *)
Detach ==
  /\ jobs' = Flagged(jobs, fg)
  /\ lost' = IF Tracked(fg) THEN lost ELSE lost \union {fg}
  /\ fg' = 0

CtrlZ ==
  /\ Key
  /\ fg # 0
  /\ \/ child[fg] = "run" /\ child' = [child EXCEPT ![fg] = "stopped"]
     \/ UNCHANGED child
  /\ Detach
  /\ UNCHANGED <<editor, output>>

-----------------------------------------------------------------------------
(* The rest of the loop: waitpid_nohang of the foreground job, and of the  *)
(* background ones in turn.                                                *)

PollForeground ==
  /\ fg # 0 /\ child[fg] \in {"zombie", "stopped"}
  /\ IF child[fg] = "stopped"
     THEN Detach /\ UNCHANGED child
     ELSE /\ jobs' = SelectSeq(jobs, LAMBDA j : j.pid # fg)
          /\ child' = [child EXCEPT ![fg] = "reaped"]
          /\ fg' = 0
          /\ UNCHANGED lost
  /\ FreshPrompt
  /\ UNCHANGED <<hist, hpos, ran, output, keys>>

Polled(j) == j.pid # fg

(* one pass: an exited job is removed and the slots close up, a stopped    *)
(* one is flagged                                                          *)
Reap ==
  /\ \E j \in Range(jobs) : Polled(j) /\ child[j.pid] \in {"zombie", "stopped"}
  /\ LET Exited(j) == Polled(j) /\ child[j.pid] = "zombie"
         left == SelectSeq(jobs, LAMBDA j : ~Exited(j))
     IN  /\ child' = [p \in DOMAIN child |->
                        IF \E j \in Range(jobs) : j.pid = p /\ Exited(j)
                        THEN "reaped" ELSE child[p]]
         /\ jobs' = [i \in DOMAIN left |-> [left[i] EXCEPT !.stopped =
                       @ \/ (Polled(left[i]) /\ child[left[i].pid] = "stopped")]]
  /\ UNCHANGED <<fg, lost, editor, output, keys>>

ChildExits ==
  \E p \in DOMAIN child :
    /\ child[p] = "run"
    /\ child' = [child EXCEPT ![p] = "zombie"]
    /\ UNCHANGED <<jobs, fg, lost, editor, output, keys>>

Turn == PollForeground \/ Reap

Next ==
  \/ \E ch \in Keys : Insert(ch)
  \/ Backspace \/ Delete \/ Move \/ KillLine \/ Up \/ Down \/ Enter \/ Cancel \/ CtrlC \/ CtrlZ
  \/ Turn \/ ChildExits

Spec == Init /\ [][Next]_vars

(* The loop turns every 16 ms whatever the keys do.                        *)
FairSpec == Spec /\ WF_vars(PollForeground) /\ WF_vars(Reap)

-----------------------------------------------------------------------------
(* Properties.                                                             *)

(* What a pipeline means, stage by stage                                   *)
Meaning(s) ==
  FoldLeft(LAMBDA buf, st : CASE st[1] = "echo" -> <<st[2]>>
                              [] st[1] = "read" -> s.stdin
                              [] OTHER -> buf,
           << >>, s.stages)

(* The line Enter executes is the line the user edited and sees, whatever  *)
(* the buffer still holds behind its end from longer or recalled lines;    *)
(* every child a job slot was found for is in the table until it is        *)
(* reaped, once; and a pipeline hands each stage's output to the next and  *)
(* the last one's to the screen or the file.                               *)
ShellSound ==
  /\ len = Len(line) /\ Seen(len) = line /\ edit \in 0 .. len
  /\ ran.got = ran.typed
  /\ \A p \in DOMAIN child : child[p] # "reaped" =>
       p \in lost \/ p = fg \/ Cardinality({i \in DOMAIN jobs : jobs[i].pid = p}) = 1
  /\ \A i \in DOMAIN jobs : child[jobs[i].pid] # "reaped"
  /\ script # NoScript =>
       IF script.out = "" THEN shown = Meaning(script)
       ELSE files[script.out] = Meaning(script)

(* A program that has exited, and one that is done with: the loop waits    *)
(* for the foreground job and for every background job ("the classic shell *)
(* zombie leak"), unless it went to the background with no job slot left.  *)
Zombie(p) == p \in DOMAIN child /\ child[p] = "zombie"
Reaped(p) == p \in DOMAIN child /\ (p \in lost \/ child[p] = "reaped")
=============================================================================
