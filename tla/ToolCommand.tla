---------------------------- MODULE ToolCommand ----------------------------
(***************************************************************************)
(* run_command (agent/tools.py): a shell command under a pseudo-terminal,  *)
(* its output streamed while it runs, cut by a deadline or by a user's     *)
(* interrupt.  The process, the clock and the user move at any step of the *)
(* loop that watches them.                                                 *)
(***************************************************************************)
EXTENDS Integers

CONSTANT MaxChunks   \* bound on the output of a command

VARIABLES at,        \* the loop's place; "replied" and "raised" are its ends
          alive,     \* the shell runs
          exit_status, \* its exit status, -9 when the kill ended it
          tty,       \* a process still holds the other end of the terminal
          wrote, read,
          deadline,  \* it has passed
          interrupt_requested,
          kill,      \* proc.kill() was called
          timed_out,
          returncode
cvars == <<at, alive, exit_status, tty, wrote, read, deadline,
           interrupt_requested, kill, timed_out, returncode>>

CInit == /\ at = "loop" /\ alive = TRUE /\ exit_status = 0 /\ tty = TRUE
         /\ wrote = 0 /\ read = 0 /\ deadline = FALSE
         /\ interrupt_requested = FALSE /\ kill = FALSE
         /\ timed_out = FALSE /\ returncode = 0

\* The process writes, lets go of its terminal, exits leaving a child that
\* may hold the terminal, or is ended by the kill.
Writes == /\ tty /\ wrote < MaxChunks /\ wrote' = wrote + 1
          /\ UNCHANGED <<at, alive, exit_status, tty, read, deadline,
                         interrupt_requested, kill, timed_out, returncode>>
LetsGo == /\ tty /\ tty' = FALSE
          /\ UNCHANGED <<at, alive, exit_status, wrote, read, deadline,
                         interrupt_requested, kill, timed_out, returncode>>
Exits(code) == /\ alive /\ alive' = FALSE /\ exit_status' = code
               /\ tty' \in {FALSE, tty}
               /\ UNCHANGED <<at, wrote, read, deadline, interrupt_requested,
                              kill, timed_out, returncode>>
KillLands == kill /\ Exits(-9)

DeadlinePasses == /\ ~deadline /\ deadline' = TRUE
                  /\ UNCHANGED <<at, alive, exit_status, tty, wrote, read,
                                 interrupt_requested, kill, timed_out, returncode>>
Interrupts == /\ ~interrupt_requested /\ interrupt_requested' = TRUE
              /\ UNCHANGED <<at, alive, exit_status, tty, wrote, read, deadline,
                             kill, timed_out, returncode>>

World == \/ Writes \/ LetsGo \/ KillLands \/ DeadlinePasses \/ Interrupts
         \/ \E code \in {0, 1} : Exits(code)

\* The top of the loop: cut the command, or go and look at the terminal.
CutWhen(cut) ==
  /\ at = "loop"
  /\ timed_out' = cut /\ kill' = cut
  /\ at' = IF cut THEN "wait" ELSE "select"
  /\ UNCHANGED <<alive, exit_status, tty, wrote, read, deadline,
                 interrupt_requested, returncode>>
CheckLimits == CutWhen(interrupt_requested \/ deadline)

\* Something to read is output, or the end of file when nobody holds the
\* terminal; otherwise the process is asked whether it has exited.
Select ==
  /\ at = "select"
  /\ at' = IF read < wrote \/ ~tty THEN "read" ELSE "poll"
  /\ UNCHANGED <<alive, exit_status, tty, wrote, read, deadline,
                 interrupt_requested, kill, timed_out, returncode>>
Poll == /\ at = "poll" /\ at' = IF alive THEN "loop" ELSE "wait"
        /\ UNCHANGED <<alive, exit_status, tty, wrote, read, deadline,
                       interrupt_requested, kill, timed_out, returncode>>
ReadChunk ==
  /\ at = "read"
  /\ IF read < wrote THEN read' = read + 1 /\ at' = "loop"
     ELSE at' = "wait" /\ UNCHANGED read
  /\ UNCHANGED <<alive, exit_status, tty, wrote, deadline,
                 interrupt_requested, kill, timed_out, returncode>>

\* proc.wait(timeout=5): when the process does not end in time it is killed
\* and waited for once more, and the second timeout is raised.
WaitOnce == /\ at = "wait"
            /\ \/ ~alive /\ at' = "reply" /\ UNCHANGED kill
               \/ alive /\ at' = "wait again" /\ kill' = TRUE
            /\ UNCHANGED <<alive, exit_status, tty, wrote, read, deadline,
                           interrupt_requested, timed_out, returncode>>
WaitAgain == /\ at = "wait again"
             /\ at' = IF alive THEN "raised" ELSE "reply"
             /\ UNCHANGED <<alive, exit_status, tty, wrote, read, deadline,
                            interrupt_requested, kill, timed_out, returncode>>

\* The plausible bug: a cut command is not waited for.
NoWait == /\ at = "wait" /\ at' = "reply"
          /\ UNCHANGED <<alive, exit_status, tty, wrote, read, deadline,
                         interrupt_requested, kill, timed_out, returncode>>
Wait == WaitOnce \/ WaitAgain

Report ==
  /\ at = "reply" /\ at' = "replied"
  /\ returncode' = CASE interrupt_requested /\ timed_out -> 130
                     [] timed_out /\ ~interrupt_requested -> 124
                     [] OTHER -> exit_status
  /\ UNCHANGED <<alive, exit_status, tty, wrote, read, deadline,
                 interrupt_requested, kill, timed_out>>

Watch == CheckLimits \/ Select \/ Poll \/ ReadChunk \/ Wait \/ Report
CNext == World \/ Watch

\* A command reports success only when the shell ended by itself with status
\* 0, never for one that was cut or killed, and no report is made while the
\* shell still runs (a shell that outlives both waits raises instead).
CommandsReportTheirEnd ==
  at = "replied" => /\ ~alive
                    /\ returncode = 0 => exit_status = 0 /\ ~timed_out
                    /\ exit_status = -9 => returncode # 0

\* Every command is reported or raised, whatever it writes and however long
\* it runs (the loop is run and the clock advances).
EveryCommandEnds == <>(at \in {"replied", "raised"})
=============================================================================
