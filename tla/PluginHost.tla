------------------------------ MODULE PluginHost ------------------------------
(***************************************************************************)
(* pr-render/src/plugin.rs, run: a rendering plugin as a child process,    *)
(* with a thread that writes its input, a thread that reads its output and *)
(* the host polling both.                                                  *)
(*                                                                         *)
(* Input and output are counted in pieces; a pipe holds PipeSize of them.  *)
(* The plugin is the environment: it may read, write, close its output,    *)
(* leave it to a process of its own, exit either way, or hang.  Time is    *)
(* whether the deadline has passed.  A failure to spawn is left out, and   *)
(* so is parsing what was rendered.  `broken' is history.                  *)
(***************************************************************************)
EXTENDS Integers

CONSTANTS
    Input,      \* pieces of input
    MaxOutput,  \* limits.max_output_bytes
    PipeSize,   \* pieces a pipe holds
    MaxWritten  \* bound: pieces the plugin writes

VARIABLES
    child,      \* "running", "exited" (not yet waited for), "reaped"
    status,     \* "?", or how it ended: "ok", "bad", "killed"
    toWrite,    \* pieces the writer thread still has
    inPipe,     \* pieces in the input pipe
    outPipe,    \* pieces in the output pipe
    written,    \* pieces the plugin ever wrote
    holders,    \* who holds the write end of the output pipe
    writer,     \* the writer thread: "writing", "done"
    buf,        \* pieces the reader thread has
    reader,     \* the reader thread: "reading", "done"
    channel,    \* what the reader sent: "none", "whole", "large"
    broken,     \* a read of the output failed
    late,       \* the deadline has passed
    host,       \* "recv", "wait", "clock", "grace", "kill", "done"
    outcome,    \* of the loop: "none", "whole", "empty", "large", "timeout", "failed"
    result      \* what run returns: "none", "ok", "empty", "crashed", "large", "timeout", "failed"

plugin == <<child, status, holders, written>>
threads == <<toWrite, writer, buf, reader, channel, broken>>
vars == <<plugin, threads, inPipe, outPipe, late, host, outcome, result>>

Init ==
    /\ child = "running" /\ status = "?"
    /\ toWrite = Input /\ inPipe = 0 /\ outPipe = 0 /\ written = 0
    /\ holders = {"plugin"}
    /\ writer = "writing" /\ buf = 0 /\ reader = "reading" /\ channel = "none" /\ broken = FALSE
    /\ late = FALSE /\ host = "recv" /\ outcome = "none" /\ result = "none"

-----------------------------------------------------------------------------
(* The plugin, and whatever it leaves behind. *)

PluginReads ==
    /\ child = "running" /\ inPipe > 0
    /\ inPipe' = inPipe - 1
    /\ UNCHANGED <<plugin, threads, outPipe, late, host, outcome, result>>

PluginWrites ==
    /\ child = "running" /\ "plugin" \in holders
    /\ outPipe < PipeSize /\ written < MaxWritten
    /\ outPipe' = outPipe + 1 /\ written' = written + 1
    /\ UNCHANGED <<child, status, holders, threads, inPipe, late, host, outcome, result>>

PluginCloses ==
    /\ child = "running" /\ "plugin" \in holders
    /\ holders' = holders \ {"plugin"}
    /\ UNCHANGED <<child, status, written, threads, inPipe, outPipe, late, host, outcome, result>>

PluginForks ==
    /\ child = "running" /\ "plugin" \in holders
    /\ holders' = holders \cup {"heir"}
    /\ UNCHANGED <<child, status, written, threads, inPipe, outPipe, late, host, outcome, result>>

HeirEnds ==
    /\ "heir" \in holders
    /\ holders' = holders \ {"heir"}
    /\ UNCHANGED <<child, status, written, threads, inPipe, outPipe, late, host, outcome, result>>

PluginExits ==
    /\ child = "running"
    /\ child' = "exited" /\ status' \in {"ok", "bad"}
    /\ holders' = holders \ {"plugin"}
    /\ UNCHANGED <<written, threads, inPipe, outPipe, late, host, outcome, result>>

-----------------------------------------------------------------------------
(* The threads. *)

\* write_all, a piece at a time; it ends early when nobody can read any more.
WriterStep ==
    /\ writer = "writing"
    /\ \/ /\ toWrite > 0 /\ child = "running" /\ inPipe < PipeSize
          /\ toWrite' = toWrite - 1 /\ inPipe' = inPipe + 1
          /\ UNCHANGED writer
       \/ /\ toWrite = 0 \/ child # "running"
          /\ writer' = "done"
          /\ UNCHANGED <<toWrite, inPipe>>
    /\ UNCHANGED <<plugin, buf, reader, channel, broken, outPipe, late, host, outcome, result>>

\* Bug: what fits of a rendering that is too large is sent as if it were all.
ReaderReadsTruncating(n) ==
    /\ outPipe' = outPipe - n
    /\ IF buf + n > MaxOutput
         THEN channel' = "whole" /\ reader' = "done" /\ UNCHANGED buf
         ELSE buf' = buf + n /\ UNCHANGED <<channel, reader>>
    /\ UNCHANGED broken

\* A read returns n pieces: more than the limit ends the thread.
ReaderReads(n) ==
    /\ outPipe' = outPipe - n
    /\ IF buf + n > MaxOutput
         THEN channel' = "large" /\ reader' = "done" /\ UNCHANGED buf
         ELSE buf' = buf + n /\ UNCHANGED <<channel, reader>>
    /\ UNCHANGED broken

\* The end of the output: the pipe is empty and nobody holds it.
ReaderEnds ==
    /\ outPipe = 0 /\ holders = {}
    /\ channel' = "whole" /\ reader' = "done"
    /\ UNCHANGED <<buf, broken, outPipe>>

ReaderStep ==
    /\ reader = "reading"
    /\ \/ ReaderEnds
       \/ \E n \in 1..outPipe : ReaderReads(n)
    /\ UNCHANGED <<plugin, toWrite, writer, inPipe, late, host, outcome, result>>

\* A read fails: the loop ends as it does at the end of the output.
ReaderFails ==
    /\ reader = "reading"
    /\ channel' = "whole" /\ reader' = "done" /\ broken' = TRUE
    /\ UNCHANGED <<plugin, toWrite, writer, buf, inPipe, outPipe, late, host, outcome, result>>

-----------------------------------------------------------------------------
(* The host. *)

HostStep(at) == host = at /\ UNCHANGED <<threads, inPipe, outPipe, late>>

Break(o) == host' = "kill" /\ outcome' = o /\ UNCHANGED <<plugin, result>>
Go(to) == host' = to /\ UNCHANGED <<plugin, outcome, result>>

\* rx.try_recv
TryRecv ==
    /\ HostStep("recv")
    /\ IF channel # "none" THEN Break(channel) ELSE Go("wait")

\* child.try_wait, which may fail.
TryWait ==
    /\ HostStep("wait")
    /\ \/ IF child = "running" THEN Go("clock") ELSE Go("grace")
       \/ Break("failed")

\* rx.recv_timeout: what the reader sends, or nothing when the grace period ends first.
Grace ==
    /\ HostStep("grace")
    /\ Break(IF channel = "none" THEN "empty" ELSE channel)

\* Bug: a plugin that is quiet is waited for.
ElapsedPatient ==
    /\ HostStep("clock")
    /\ IF late /\ written > 0 THEN Break("timeout") ELSE Go("recv")

\* started.elapsed
Elapsed ==
    /\ HostStep("clock")
    /\ IF late THEN Break("timeout") ELSE Go("recv")

\* kill, wait, and the verdict: a child that closed its output and still runs dies here.
Kill ==
    /\ HostStep("kill")
    /\ child' = "reaped"
    /\ status' = IF child = "running" THEN "killed" ELSE status
    /\ holders' = holders \ {"plugin"}
    /\ host' = "done"
    /\ result' = IF outcome \in {"large", "timeout", "failed"} THEN outcome
                 ELSE IF status' # "ok" THEN "crashed"
                 ELSE IF outcome = "whole" THEN "ok" ELSE "empty"
    /\ UNCHANGED <<written, outcome>>

Clock ==
    /\ ~late
    /\ late' = TRUE
    /\ UNCHANGED <<plugin, threads, inPipe, outPipe, host, outcome, result>>

Host == TryRecv \/ TryWait \/ Grace \/ Elapsed \/ Kill

Next ==
    \/ PluginReads \/ PluginWrites \/ PluginCloses \/ PluginForks \/ HeirEnds \/ PluginExits
    \/ WriterStep \/ ReaderStep \/ ReaderFails \/ Host \/ Clock

Spec == Init /\ [][Next]_vars

\* The host and its threads run, and time passes; the plugin owes nothing, and no read or wait
\* need fail.
Fairness == WF_vars(Host) /\ WF_vars(Clock) /\ WF_vars(ReaderStep) /\ WF_vars(WriterStep)

FairSpec == Spec /\ Fairness

-----------------------------------------------------------------------------

\* What is shown of a plugin that ended well is all it wrote, never the first part of it,
\* unless a read of its output failed.
NeverPartial == result = "ok" => status = "ok" /\ (buf = written \/ broken)

\* As above, whatever fails.  A failed read hands over what came before it as the whole: no
\* run checks this.
NeverPartialAtAll == result = "ok" => buf = written /\ status = "ok"

\* "Runs granted L2 plugins and survives them": whatever the plugin does, writing before it
\* reads, hanging, leaving its pipe to another process, the call returns and the child
\* is reaped.
CallReturns == <>[](host = "done" /\ child = "reaped")

\* "then take whatever it has": a plugin that exits well is shown with what was read of it.
TakesWhatItHas == result = "empty" => buf = 0
=============================================================================
