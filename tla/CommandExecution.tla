-------------------------- MODULE CommandExecution --------------------------
(***************************************************************************)
(* One verification command (src/rust/ovca-verifier/src/execution.rs): the *)
(* check of its executable, the spawn inside a containment, the two        *)
(* threads that read its output up to a cap, and the loop that watches for *)
(* too much output, too much time, and the end of the command.             *)
(*                                                                         *)
(* Bytes are counted, not kept.  The command and whoever else writes to    *)
(* the disk act between any two steps.                                     *)
(***************************************************************************)
EXTENDS Naturals, Sequences

CONSTANTS
    Executables,    \* the executables that commands name
    Refused,        \* those whose profile or environment the registry refuses
    Streams,        \* standard output and standard error
    OutputCap,      \* how many bytes of a stream are kept
    MaxBytes,       \* bound: how many bytes a command writes to a stream
    ExitCodes,      \* codes a command may end with
    Platforms,      \* TRUE: the build for Windows, FALSE: the one for Unix
    Absent          \* nothing

VARIABLES
    windows,        \* the platform; there a checked file is held until the
                    \* spawn, and no descendant leaves the containment
    executables,    \* what the path of each executable holds
    watcher,        \* execute_prepared: the thread that runs the command
    process,        \* the direct child, and a descendant that escaped
    output,         \* each stream: written, unread in the pipe, captured
    frozen,         \* the captures take no more
    overflow,       \* a stream went over its cap
    ran             \* every process that was spawned and how it ended

commandVars == <<windows, executables, watcher, process, output, frozen, overflow, ran>>

\* What may be found where an executable should be.
Files == {"approved", "other", "gone"}

Places == {"idle", "spawning", "watching", "stopping", "joining", "done"}
Forces == {"OutputLimit", "Timeout"}
Terminations == {"Completed", "Timeout", "OutputLimit", "Invalid"}

\* What execute_prepared answers without a transcript entry.
Refusals == {"SnapshotTamper", "Tampered", "Unavailable", "Refused"}
Replies == [kind : Terminations, code : ExitCodes \cup {Absent}]
             \cup [kind : Refusals \cup {"Error"}, code : {Absent}]

NoCommand == [at |-> "idle", executable |-> Absent, forced |-> Absent,
              status |-> Absent, reply |-> Absent]
NoProcess == [state |-> "none", orphan |-> FALSE]
NoOutput == [s \in Streams |-> [written |-> 0, unread |-> 0, captured |-> 0]]

ASSUME CommandAssumption ==
    /\ Refused \subseteq Executables
    /\ OutputCap \in Nat /\ MaxBytes \in Nat
    /\ Platforms # {} /\ Platforms \subseteq BOOLEAN
    /\ Absent \notin Executables /\ Absent \notin ExitCodes
    /\ Absent \notin Forces \cup Refusals /\ Absent \notin Replies

CommandInit ==
    /\ windows \in Platforms
    /\ executables = [x \in Executables |-> "approved"]
    /\ watcher = NoCommand
    /\ process = NoProcess
    /\ output = NoOutput
    /\ frozen = FALSE
    /\ overflow = FALSE
    /\ ran = << >>

-----------------------------------------------------------------------------
\* The digest of the file is that of the profile.
FileFailure(x) ==
    CASE executables[x] = "gone" -> "Unavailable"
      [] executables[x] = "other" -> "Tampered"
      [] OTHER -> Absent

\* ExecutableRegistry::prepare
PrepareFailure(x) == IF x \in Refused THEN "Refused" ELSE FileFailure(x)

Ended(kind, code) == [watcher EXCEPT !.at = "done", !.reply = [kind |-> kind, code |-> code]]

\* execute_prepared, up to the checks immediately before the spawn.
StartCommand(x, directory) ==
    LET failure == IF directory THEN FileFailure(x) ELSE "SnapshotTamper"
        begun == [NoCommand EXCEPT !.at = "spawning", !.executable = x]
    IN /\ watcher.at = "idle"
       /\ watcher' = IF failure = Absent THEN begun
                     ELSE [begun EXCEPT !.at = "done",
                                        !.reply = [kind |-> failure, code |-> Absent]]
       /\ process' = NoProcess
       /\ output' = NoOutput
       /\ frozen' = FALSE
       /\ overflow' = FALSE
       /\ UNCHANGED <<windows, executables, ran>>

\* The child is started, attached to its containment and resumed.
Spawn ==
    /\ watcher.at = "spawning"
    /\ executables[watcher.executable] # "gone"
    /\ watcher' = [watcher EXCEPT !.at = "watching"]
    /\ process' = [state |-> "running", orphan |-> FALSE]
    /\ ran' = Append(ran, [executable |-> watcher.executable,
                           image |-> executables[watcher.executable],
                           code |-> Absent])
    /\ UNCHANGED <<windows, executables, output, frozen, overflow>>

\* The spawn, the containment or a system call fails; what was started is
\* killed when the handle is dropped, and no evidence is made.
CommandFails ==
    /\ watcher.at \in {"spawning", "watching", "stopping"}
    /\ watcher' = Ended("Error", Absent)
    /\ process' = NoProcess
    /\ UNCHANGED <<windows, executables, output, frozen, overflow, ran>>

\* One turn of the loop: the cap, then the clock, then the child.
WatchOverflow ==
    /\ watcher.at = "watching" /\ overflow
    /\ watcher' = [watcher EXCEPT !.at = "stopping", !.forced = "OutputLimit"]
    /\ frozen' = TRUE
    /\ UNCHANGED <<windows, executables, process, output, overflow, ran>>

WatchTimeout ==
    /\ watcher.at = "watching" /\ ~overflow
    /\ watcher' = [watcher EXCEPT !.at = "stopping", !.forced = "Timeout"]
    /\ frozen' = TRUE
    /\ UNCHANGED <<windows, executables, process, output, overflow, ran>>

\* Only a forced end freezes the captures.
FrozenAfterExit == frozen

WatchExit ==
    /\ watcher.at = "watching" /\ ~overflow
    /\ process.state = "exited"
    /\ watcher' = [watcher EXCEPT !.at = "stopping", !.status = ran[Len(ran)].code]
    /\ frozen' = FrozenAfterExit
    /\ UNCHANGED <<windows, executables, process, output, overflow, ran>>

\* terminate_and_reap: nothing of the containment is left; a descendant that
\* left it is not in it.
Terminate ==
    /\ watcher.at = "stopping"
    /\ watcher' = [watcher EXCEPT !.at = "joining"]
    /\ process' = [process EXCEPT !.state = "none"]
    /\ UNCHANGED <<windows, executables, output, frozen, overflow, ran>>

\* A reader sees the end of its stream when nobody holds the other end.
Drained == process = NoProcess /\ \A s \in Streams : output[s].unread = 0

\* Fault: only what the loop saw counts.
TerminationOfLoop(changed) ==
    IF changed THEN "Invalid"
    ELSE IF watcher.forced # Absent THEN watcher.forced ELSE "Completed"

\* The second check of the executable, and the ranking of what went wrong.
Termination(changed) ==
    CASE changed -> "Invalid"
      [] ~changed /\ (overflow \/ watcher.forced = "OutputLimit") -> "OutputLimit"
      [] ~changed /\ ~overflow /\ watcher.forced = "Timeout" -> "Timeout"
      [] OTHER -> "Completed"

\* Both readers are joined and the evidence is made.
Join ==
    LET kind == Termination(executables[watcher.executable] # "approved")
    IN /\ watcher.at = "joining" /\ Drained
       /\ watcher' = Ended(kind, IF kind \in {"Completed", "Invalid"} THEN watcher.status ELSE Absent)
       /\ UNCHANGED <<windows, executables, process, output, frozen, overflow, ran>>

WatcherStep ==
    \/ Spawn \/ CommandFails \/ WatchOverflow \/ WatchTimeout
    \/ WatchExit \/ Terminate \/ Join

-----------------------------------------------------------------------------
\* read_stream: one byte, under the lock of both captures.
Read(s) ==
    /\ output[s].unread > 0
    /\ IF frozen
       THEN /\ output' = [output EXCEPT ![s].unread = @ - 1]
            /\ UNCHANGED <<frozen, overflow>>
       ELSE IF output[s].captured = OutputCap
       THEN /\ output' = [output EXCEPT ![s].unread = @ - 1]
            /\ frozen' = TRUE
            /\ overflow' = TRUE
       ELSE /\ output' = [output EXCEPT ![s].unread = @ - 1, ![s].captured = @ + 1]
            /\ UNCHANGED <<frozen, overflow>>
    /\ UNCHANGED <<windows, executables, watcher, process, ran>>

-----------------------------------------------------------------------------
\* The command and its descendants; one that stays in the containment lives
\* until that is terminated.
Write(s) ==
    /\ process # NoProcess
    /\ output[s].written < MaxBytes
    /\ output' = [output EXCEPT ![s].written = @ + 1, ![s].unread = @ + 1]
    /\ UNCHANGED <<windows, executables, watcher, process, frozen, overflow, ran>>

Exit(code) ==
    /\ process.state = "running"
    /\ process' = [process EXCEPT !.state = "exited"]
    /\ ran' = [ran EXCEPT ![Len(ran)].code = code]
    /\ UNCHANGED <<windows, executables, watcher, output, frozen, overflow>>

\* A descendant leaves the process group and keeps the pipes; the job object
\* of Windows cannot be left.
Escape ==
    /\ ~windows
    /\ process.state = "running" /\ ~process.orphan
    /\ process' = [process EXCEPT !.orphan = TRUE]
    /\ UNCHANGED <<windows, executables, watcher, output, frozen, overflow, ran>>

OrphanExits ==
    /\ process.orphan
    /\ process' = [process EXCEPT !.orphan = FALSE]
    /\ UNCHANGED <<windows, executables, watcher, output, frozen, overflow, ran>>

ProcessStep ==
    \/ \E s \in Streams : Write(s)
    \/ \E code \in ExitCodes : Exit(code)
    \/ Escape \/ OrphanExits

\* Somebody replaces or removes an executable, or puts it back.
ReplaceExecutable(x) ==
    /\ ~(windows /\ watcher.at = "spawning" /\ watcher.executable = x)
    /\ \E file \in Files \ {executables[x]} :
            executables' = [executables EXCEPT ![x] = file]
    /\ UNCHANGED <<windows, watcher, process, output, frozen, overflow, ran>>

CommandStep ==
    \/ WatcherStep \/ ProcessStep
    \/ \E s \in Streams : Read(s)

-----------------------------------------------------------------------------
CommandTypeOK ==
    /\ windows \in Platforms
    /\ executables \in [Executables -> Files]
    /\ watcher \in [at : Places, executable : Executables \cup {Absent},
                    forced : Forces \cup {Absent}, status : ExitCodes \cup {Absent},
                    reply : Replies \cup {Absent}]
    /\ process \in [state : {"none", "running", "exited"}, orphan : BOOLEAN]
    /\ output \in [Streams -> [written : 0..MaxBytes, unread : 0..MaxBytes,
                               captured : 0..OutputCap]]
    /\ frozen \in BOOLEAN /\ overflow \in BOOLEAN
    /\ ran \in Seq([executable : Executables, image : Files,
                    code : ExitCodes \cup {Absent}])

\* A command that is reported as completed is reported with the code it ended
\* with and with every byte it wrote: the reaping of its descendants, the freeze
\* of a forced end and the cap never cut a transcript that counts as complete
\* (execute_prepared, read_stream, freeze).
TranscriptIsWhole ==
    watcher.reply # Absent /\ watcher.reply.kind = "Completed" =>
        /\ watcher.reply.code = ran[Len(ran)].code
        /\ watcher.reply.code # Absent
        /\ \A s \in Streams : output[s].captured = output[s].written
=============================================================================
