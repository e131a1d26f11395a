------------------------------ MODULE SshSession ------------------------------
(***************************************************************************)
(* Commands on one SSH session: exec and execDetached of                   *)
(* apps/server/src/ssh/ssh-session.ts, with the command line that          *)
(* ssh/posix-command.ts builds and what a POSIX shell makes of it.         *)
(*                                                                         *)
(* A call waits for the channel to open, collects what arrives on it, and  *)
(* is settled by the first of its close, an error and its timer.  Requests *)
(* and answers cross: the remote shell may run a command whose call has    *)
(* been settled, and the connection may be lost at any time.               *)
(*                                                                         *)
(* Output is text in UTF-8 that comes in chunks of bytes, cut anywhere.  A *)
(* character is its number in the text, of one byte or, in Wide, of two;   *)
(* characters of more bytes, and those that are two units of a JavaScript  *)
(* string, are left out.                                                   *)
(***************************************************************************)
EXTENDS Naturals, Sequences, SequencesExt

CONSTANTS
    Calls,      \* calls of exec
    Starts,     \* those made by execDetached
    WorkDir,    \* input.workingDirectory of each start, or None
    Home,       \* the directory a shell starts in
    MaxOutput,  \* MAX_OUTPUT
    MaxWritten, \* bound: how many characters a command writes
    Wide,       \* which of them take two bytes
    None

ASSUME StartsAssumption == Starts \subseteq Calls /\ DOMAIN WorkDir = Starts
ASSUME OutputAssumption == MaxOutput \in Nat \ {0} /\ MaxWritten \in Nat \ {0}
ASSUME HomeAssumption == Home # None

\* The directories a shell can be in, and the words of a command line.
Dirs == {WorkDir[c] : c \in Starts} \union {Home}
Words == {"mkdir", "-p", "$HOME/.cache/ssh-launchpad", "cd", "&&",
          "nohup", "sh", "-lc", "command"} \union Dirs

\* What is left of a list of commands, and the directory it has come to.
Jobs == [words : Seq(Words), dir : Dirs]

Results == {"ok", "failed", "timed out"}

ASSUME NoneAssumption == None \notin Results /\ None \notin Jobs

VARIABLES
    link,       \* the connection
    channel,    \* per call: the channel, as the client knows it
    result,     \* what the call's promise was settled with, or None
    written,    \* how many characters the command has written to stdout
    received,   \* how many of them have reached the client
    half,       \* whether the first byte of the next one has, too
    torn,       \* history: the first character that two chunks share, or 0
    stdout,     \* the characters the client has kept
    shell,      \* the shell sshd runs for the call
    job,        \* what a shell has put into the background, or None
    ran         \* the directory the command of a start was run in, or None

client == <<link, channel, result>>
output == <<written, received, half, torn, stdout>>
remote == <<shell, job, ran>>
vars == <<client, output, remote>>

Channels == {"none", "requested", "open", "closed"}

\* What becomes of bytes that are no character: U+FFFD, the number 0.
Replacement == 0

TypeOK ==
    /\ link \in {"up", "lost"}
    /\ channel \in [Calls -> Channels]
    /\ result \in [Calls -> Results \union {None}]
    /\ written \in [Calls -> 0..MaxWritten] /\ received \in [Calls -> 0..MaxWritten]
    /\ half \in [Calls -> BOOLEAN]
    /\ torn \in [Calls -> 0..MaxWritten]
    /\ stdout \in [Calls -> Seq(0..MaxWritten)]
    /\ \A c \in Calls : received[c] <= written[c] /\ (half[c] => received[c] < written[c])
    /\ shell \in [Calls -> {"none", "running", "exited"}]
    /\ job \in [Calls -> Jobs \union {None}]
    /\ ran \in [Calls -> Dirs \union {None}]
    /\ \A c \in Calls : ran[c] # None => c \in Starts /\ shell[c] # "none"

Init ==
    /\ link = "up"
    /\ channel = [c \in Calls |-> "none"]
    /\ result = [c \in Calls |-> None]
    /\ written = [c \in Calls |-> 0]
    /\ received = [c \in Calls |-> 0]
    /\ half = [c \in Calls |-> FALSE]
    /\ torn = [c \in Calls |-> 0]
    /\ stdout = [c \in Calls |-> <<>>]
    /\ shell = [c \in Calls |-> "none"]
    /\ job = [c \in Calls |-> None]
    /\ ran = [c \in Calls |-> None]

-----------------------------------------------------------------------------
(* The command line of a start, as the words a shell reads.  The redirections,
   the final "&" and "echo $!" go with every such line. *)

cwd(c) == IF WorkDir[c] = None THEN <<>> ELSE <<"cd", WorkDir[c], "&&">>

buildDetachedCommand(c) ==
    <<"mkdir", "-p", "$HOME/.cache/ssh-launchpad">> \o cwd(c)
        \o <<"nohup", "sh", "-lc", "command">>

\* The words up to the first "&&", and those after it.
End(words) == IF Contains(words, "&&")
              THEN SelectInSeq(words, LAMBDA w : w = "&&")
              ELSE Len(words) + 1
FirstCommand(words) == SubSeq(words, 1, End(words) - 1)
Remaining(words) == SubSeq(words, End(words) + 1, Len(words))

\* The background job runs the first command of what is left of its list; a
\* command that fails ends the list.  mkdir knows no option -lc.  Directories
\* are taken to exist; cd stands in the lines of starts that have one.
RunCommand(c) ==
    /\ job[c] # None
    /\ job[c].words # <<>>
    /\ LET words == FirstCommand(job[c].words)
           fails == Head(words) = "mkdir" /\ Contains(words, "-lc")
       IN /\ job' = [job EXCEPT
                 ![c].words = IF fails THEN <<>> ELSE Remaining(@),
                 ![c].dir = IF Head(words) = "cd" THEN WorkDir[c] ELSE @]
          /\ ran' = IF Head(words) = "nohup" THEN [ran EXCEPT ![c] = job[c].dir] ELSE ran
    /\ UNCHANGED <<client, output, shell>>

-----------------------------------------------------------------------------
(* The remote side. *)

\* sshd opens the channel and runs the line.  That of a start goes into the
\* background as a whole.
Spawn(c) ==
    /\ link = "up"
    /\ channel[c] = "requested"
    /\ shell[c] = "none"
    /\ shell' = [shell EXCEPT ![c] = "running"]
    /\ job' = IF c \in Starts
              THEN [job EXCEPT ![c] = [words |-> buildDetachedCommand(c), dir |-> Home]]
              ELSE job
    /\ UNCHANGED <<client, output, ran>>

\* The command writes n characters; that of a start is echo $!.
Write(c, n) ==
    /\ shell[c] = "running"
    /\ written[c] + n <= MaxWritten
    /\ written' = [written EXCEPT ![c] = @ + n]
    /\ UNCHANGED <<client, received, half, torn, stdout, remote>>

Exit(c) ==
    /\ shell[c] = "running"
    /\ c \in Starts => written[c] > 0
    /\ shell' = [shell EXCEPT ![c] = "exited"]
    /\ UNCHANGED <<client, output, job, ran>>

Lose ==
    /\ link = "up"
    /\ link' = "lost"
    /\ UNCHANGED <<channel, result, output, remote>>

-----------------------------------------------------------------------------
(* The client. *)

\* resolve and reject: only the first of them counts.
Settle(c, r) == result' = IF result[c] = None THEN [result EXCEPT ![c] = r] ELSE result

\* exec sends its request and starts its timer; without a connection
\* client.exec throws.
Exec(c) ==
    /\ channel[c] = "none"
    /\ IF link = "up"
       THEN channel' = [channel EXCEPT ![c] = "requested"] /\ UNCHANGED result
       ELSE channel' = [channel EXCEPT ![c] = "closed"] /\ Settle(c, "failed")
    /\ UNCHANGED <<link, output, remote>>

\* The callback of client.exec, with a channel or with an error.
Opened(c) ==
    /\ channel[c] = "requested"
    /\ shell[c] # "none"
    /\ channel' = [channel EXCEPT ![c] = "open"]
    /\ UNCHANGED <<link, result, output, remote>>

OpenFailed(c) ==
    /\ channel[c] = "requested"
    /\ shell[c] = "none" \/ link = "lost"
    /\ channel' = [channel EXCEPT ![c] = "closed"]
    /\ Settle(c, "failed")
    /\ UNCHANGED <<link, output, remote>>

\* The chunk that completes n characters and ends inside the next if h holds,
\* as chunk.toString('utf8') decodes it: alone, without the bytes before it.
Chunk(c, n, h) ==
    [i \in 1..(IF h THEN n + 1 ELSE n) |->
        IF i = n + 1 \/ (i = 1 /\ half[c]) THEN Replacement ELSE received[c] + i]

Slice(units, room) == [i \in 1..(IF Len(units) < room THEN Len(units) ELSE room) |-> units[i]]

\* Mutant: every chunk is cut to the limit, not to what is left of it.
KeepWholeLimit(c, units) ==
    stdout' = IF Len(stdout[c]) < MaxOutput
              THEN [stdout EXCEPT ![c] = @ \o Slice(units, MaxOutput)]
              ELSE stdout

\* stdout takes what it has room for.
Keep(c, units) ==
    stdout' = IF Len(stdout[c]) < MaxOutput
              THEN [stdout EXCEPT ![c] = @ \o Slice(units, MaxOutput - Len(@))]
              ELSE stdout

\* Mutant: the listener is registered twice, each chunk comes twice.
DataTwice(c, n, h) ==
    /\ link = "up"
    /\ channel[c] = "open"
    /\ received[c] + n <= written[c]
    /\ n > 0 /\ ~half[c] /\ ~h
    /\ received' = [received EXCEPT ![c] = @ + 2 * n]
    /\ Keep(c, Chunk(c, n, h) \o Chunk(c, n, h))
    /\ UNCHANGED <<client, written, half, torn, remote>>

\* A chunk arrives.  A PID has no wide characters.
Data(c, n, h) ==
    /\ link = "up"
    /\ channel[c] = "open"
    /\ n > 0 \/ (h /\ ~half[c])
    /\ received[c] + n <= written[c]
    /\ h => /\ received[c] + n < written[c]
            /\ received[c] + n + 1 \in Wide
            /\ c \notin Starts
    /\ received' = [received EXCEPT ![c] = @ + n]
    /\ half' = [half EXCEPT ![c] = h]
    /\ torn' = IF h /\ torn[c] = 0 THEN [torn EXCEPT ![c] = received[c] + n + 1] ELSE torn
    /\ Keep(c, Chunk(c, n, h))
    /\ UNCHANGED <<client, written, remote>>

\* Mutant: any output is taken for a PID, none included.
OutcomeAlwaysOk(c) == "ok"

\* finish() after a close: exec resolves whatever the exit code, execDetached
\* needs a PID on stdout.
Outcome(c) == IF c \in Starts /\ stdout[c] = <<>> THEN "failed" ELSE "ok"

\* The channel closes after the command, when all of its output has come, or
\* with the connection.
Close(c) ==
    /\ channel[c] = "open"
    /\ link = "lost" \/ (shell[c] = "exited" /\ received[c] = written[c])
    /\ channel' = [channel EXCEPT ![c] = "closed"]
    /\ Settle(c, Outcome(c))
    /\ UNCHANGED <<link, output, remote>>

\* The channel's error event.
ChannelError(c) ==
    /\ channel[c] = "open"
    /\ Settle(c, "failed")
    /\ UNCHANGED <<link, channel, output, remote>>

\* Mutant: the timer is started when the channel is open.
TimeOutOfOpen(c) ==
    /\ channel[c] = "open"
    /\ result[c] = None
    /\ channel' = [channel EXCEPT ![c] = "closed"]
    /\ Settle(c, "timed out")
    /\ UNCHANGED <<link, output, remote>>

\* The timer destroys the channel it knows of: one that opens later stays open.
TimeOut(c) ==
    /\ channel[c] # "none"
    /\ result[c] = None
    /\ channel' = [channel EXCEPT ![c] = IF @ = "open" THEN "closed" ELSE @]
    /\ Settle(c, "timed out")
    /\ UNCHANGED <<link, output, remote>>

-----------------------------------------------------------------------------

Next ==
    \/ Lose
    \/ \E c \in Calls :
           \/ Exec(c) \/ Opened(c) \/ OpenFailed(c)
           \/ Close(c) \/ ChannelError(c) \/ TimeOut(c)
           \/ Spawn(c) \/ Exit(c) \/ RunCommand(c)
           \/ \E n \in 1..MaxWritten : Write(c, n)
           \/ \E n \in 0..MaxWritten, h \in BOOLEAN : Data(c, n, h)

Spec == Init /\ [][Next]_vars

\* Timers fire; neither the network nor the remote machine owes anything.
FairSpec == Spec /\ \A c \in Calls : WF_vars(TimeOut(c))

-----------------------------------------------------------------------------
(* Correctness. *)

\* The characters that came before one was cut.
Intact(c) == IF torn[c] = 0 THEN received[c] ELSE torn[c] - 1

(* What exec returns is never longer than its limit and begins with what the
   command wrote, up to the limit or to the first character that two chunks
   share, in whatever pieces it arrived; if none was shared there is nothing
   else in it.  (Each piece of a shared character becomes a U+FFFD.) *)
OutputIsPrefix ==
    \A c \in Calls :
        /\ Len(stdout[c]) <= MaxOutput
        /\ \A i \in 1..MaxOutput :
               i <= Intact(c) => i <= Len(stdout[c]) /\ stdout[c][i] = i
        /\ torn[c] = 0 => Len(stdout[c]) <= received[c]

(* A start that is reported as done (startedByLaunchpad will be true, and the
   stop command may be run) has put its command line into the background of the
   remote machine and its PID has come back, however the loss of the connection,
   the channel's close and error and the timer raced. *)
StartedMeansSpawned ==
    \A c \in Starts : result[c] = "ok" => job[c] # None /\ received[c] > 0

(* Every call of exec is settled, though the channel may never open, never
   close, or be lost with the connection: connect and disconnect wait for it. *)
CallsEnd ==
    \A c \in Calls : channel[c] # "none" ~> result[c] # None

-----------------------------------------------------------------------------
(* What the documents say and the code does not do. *)

(* "The configured start command is executed detached, through nohup sh -lc, in
   the configured working directory" (design section 9.3, line 241): once the
   job of a reported start has come to its end, it has done so. *)
StartRunsCommand ==
    \A c \in Starts :
        result[c] = "ok" /\ job[c] # None /\ job[c].words = <<>>
            => ran[c] = IF WorkDir[c] = None THEN Home ELSE WorkDir[c]
=============================================================================
