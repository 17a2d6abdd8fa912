----------------------------- MODULE DevSession -----------------------------
(***************************************************************************)
(* "image-downloader-dev call" and "session" (devtools/cli, worker, runtime):*)
(* the command starts a worker, which loads a plugin and runs what it is     *)
(* asked to; they talk over the worker's standard streams.  The plugin's     *)
(* code may fail, never end or ignore an interrupt; the user may interrupt   *)
(* the command at any time, also while it waits for the worker to end.       *)
(*                                                                         *)
(* Of the worker's commands, "use" stands for load, methods, call and check, *)
(* which work on the session's instance of the plugin, and "simulate" for    *)
(* what does without it.  A worker that does nothing more may be one whose   *)
(* plugin never returns, so no step of it is fair.                           *)
(***************************************************************************)
EXTENDS Naturals, Sequences, SequencesExt

CONSTANTS
  Kinds,        \* commands: "call", "session"
  Systems,    \* "posix", "windows"
  MaxRequests,  \* bound: requests of a session
  None          \* nothing yet

SessionAssumption ==
  MaxRequests \in Nat \ {0} /\ Kinds \subseteq {"call", "session"} /\ None # 0

VARIABLES
  command,   \* "call" or "session"
  platform,  \* where it runs
  client,    \* what the command does
  asked,     \* how many requests it has made
  verdict,   \* the reply with which it is to end
  stop,      \* None, "interrupted" or "timeout"
  exit,      \* its exit code
  input,     \* requests on the worker's standard input
  piped,     \* whether that is open
  channel,   \* replies that were not received
  worker,    \* what the worker does
  serving,   \* the request that it works on, 0 before the first
  closing,   \* why it closes its session: "reload", "end"
  instance,  \* whether there is an instance of the plugin
  service,   \* "none", "open" or "closed"
  broken,    \* whether the close has failed so far
  reading,   \* whether a thread that waits for input was left behind
  signals,   \* interrupts it has received and not taken up
  killed,    \* whether it was terminated
  sent,      \* every reply it has sent
  shown      \* shown[n]: the reply received for the request n, which is shown

clientVars == <<client, asked, verdict, stop, exit, shown>>
workerVars == <<worker, serving, closing, instance, service, broken, reading, sent>>
sessionVars == <<command, platform, clientVars, workerVars, input, piped, channel, signals, killed>>
-----------------------------------------------------------------------------
Ok(n) == [of |-> n, ok |-> TRUE, code |-> 0]
Failure(n, c) == [of |-> n, ok |-> FALSE, code |-> c]

Requests == {"use", "simulate"}

Gone == worker = "gone"
Failures(s) == {i \in DOMAIN s : ~s[i].ok}

SessionInit ==
  /\ command \in Kinds /\ platform \in Systems
  /\ client = "start" /\ asked = 0 /\ verdict = None /\ stop = None /\ exit = None
  /\ input = <<>> /\ piped = TRUE /\ channel = <<>>
  /\ worker = "open" /\ serving = 0 /\ closing = None /\ instance = FALSE /\ service = "none"
  /\ broken = FALSE /\ reading = FALSE /\ signals = 0 /\ killed = FALSE
  /\ sent = <<>> /\ shown = <<>>
-----------------------------------------------------------------------------
(* The worker.                                                             *)

Reply(r) == sent' = Append(sent, r) /\ channel' = Append(channel, r)

\* Whatever ends the loop is told, and the session is closed.
Fails(r) ==
  /\ Reply(r)
  /\ worker' = "cleanup" /\ closing' = "end" /\ broken' = FALSE

\* DevelopmentSession and open, at first and after a reload.
Open ==
  /\ worker = "open"
  /\ \/ worker' = "idle" /\ service' = "open" /\ Reply(Ok(serving))
        /\ UNCHANGED <<closing, broken>>
     \* It is not constructed, or its gateway is open already.
     \/ \E c \in {1, 2} : Fails(Failure(serving, c))
        /\ service' \in {service, "open"}
  /\ UNCHANGED <<command, platform, clientVars, serving, instance, reading, input, piped, signals, killed>>

\* A line of the input, or its end.
Read ==
  /\ worker = "idle"
  /\ IF input = <<>>
     THEN /\ ~piped
          /\ worker' = "cleanup" /\ closing' = "end"
          /\ UNCHANGED <<serving, input>>
     ELSE /\ input' = Tail(input)
          /\ CASE Head(input) = "quit" -> /\ worker' = "cleanup" /\ closing' = "end"
                                          /\ UNCHANGED serving
               [] Head(input) = "reload" -> /\ worker' = "cleanup" /\ closing' = "reload"
                                            /\ serving' = serving + 1
               [] OTHER -> worker' = Head(input) /\ serving' = serving + 1 /\ UNCHANGED closing
  /\ broken' = FALSE
  /\ UNCHANGED <<command, platform, clientVars, instance, service, reading, sent, piped, channel,
                signals, killed>>

Answers(r) == Reply(r) /\ worker' = "idle"

\* The instance is kept also when it is refused its settings.
EnsureInstance == instance' \in {instance, TRUE}

\* dispatch, of what needs the instance: there is none, or the hook or what it was
\* given fails, or it succeeds.
Use ==
  /\ worker = "use"
  /\ \/ ~instance /\ EnsureInstance /\ Answers(Failure(serving, 1))
     \/ instance' = TRUE /\ \E r \in {Ok(serving), Failure(serving, 1), Failure(serving, 2)} : Answers(r)
  /\ UNCHANGED <<command, platform, clientVars, serving, closing, service, broken, reading, input, piped,
                signals, killed>>

\* An operation of the service, which makes and cleans up instances of its own.
Simulate ==
  /\ worker = "simulate"
  /\ \E r \in {Ok(serving), Failure(serving, 1)} : Answers(r)
  /\ UNCHANGED <<command, platform, clientVars, serving, closing, instance, service, broken, reading,
                input, piped, signals, killed>>

\* close: the cleanup hook of the instance, which is forgotten first.
Cleanup ==
  /\ worker = "cleanup"
  /\ instance' = FALSE
  /\ broken' \in (IF instance THEN {FALSE, TRUE} ELSE {FALSE})
  /\ worker' = "service"
  /\ UNCHANGED <<command, platform, clientVars, serving, closing, service, reading, sent, input, piped,
                channel, signals, killed>>

\* The end of close, of which a failure is told.
Closed(failed) ==
  CASE failed /\ closing = "reload" -> Fails(Failure(serving, 1))
    [] failed /\ closing = "end" -> /\ Reply(Failure(None, 1)) /\ worker' = "over"
                                    /\ UNCHANGED <<closing, broken>>
    [] ~failed -> /\ worker' = (IF closing = "reload" THEN "open" ELSE "over")
                  /\ UNCHANGED <<closing, broken, sent, channel>>

CloseService ==
  /\ worker = "service"
  /\ \/ service' = (IF service = "open" THEN "closed" ELSE service) /\ Closed(broken)
     \/ service = "open" /\ UNCHANGED service /\ Closed(TRUE)
  /\ UNCHANGED <<command, platform, clientVars, serving, instance, reading, input, piped, signals, killed>>

\* The process ends when no thread of it waits for input.
End ==
  /\ worker = "over"
  /\ reading => ~piped
  /\ worker' = "gone"
  /\ UNCHANGED <<command, platform, clientVars, serving, closing, instance, service, broken, reading, sent,
                input, piped, channel, signals, killed>>

\* An interrupt cancels the worker's task, a second one is raised wherever it is.
\* The plugin may catch either.
Interrupted ==
  /\ signals > 0
  /\ signals' = signals - 1
  /\ \/ /\ worker \in {"open", "idle", "use", "simulate"}
        /\ Fails(Failure(IF worker = "idle" THEN None ELSE serving, 1))
        /\ service' \in (IF worker = "open" THEN {service, "open"} ELSE {service})
        /\ instance' \in (IF worker = "use" THEN {instance, TRUE} ELSE {instance})
        /\ reading' = (worker = "idle")
     \/ /\ worker = "cleanup" /\ worker' = "service" /\ instance' = FALSE /\ broken' = TRUE
        /\ UNCHANGED <<closing, service, reading, sent, channel>>
     \/ /\ worker = "service" /\ Closed(TRUE)
        /\ UNCHANGED <<service, instance, reading>>
     \/ /\ UNCHANGED <<worker, closing, instance, service, broken, reading, sent, channel>>
  /\ UNCHANGED <<command, platform, clientVars, serving, input, piped, killed>>
-----------------------------------------------------------------------------
(* The command.                                                            *)

Leave(v, why) ==
  /\ client' = "leave" /\ verdict' = v /\ stop' = why

\* Writing to a worker that is gone fails: the command ends with an error of its
\* own and shows no reply.
Ask(r) ==
  IF Gone THEN Leave([ok |-> FALSE, code |-> 2], None) /\ UNCHANGED <<input, asked>>
  ELSE /\ input' = Append(input, r)
       /\ asked' = asked + 1
       /\ client' = "reply"
       /\ UNCHANGED <<verdict, stop>>

AsVerdict(r) == [ok |-> r.ok, code |-> r.code]

\* The worker has loaded the plugin, or has failed to.
ReceiveReady ==
  /\ client = "start" /\ channel # <<>>
  /\ channel' = Tail(channel)
  /\ CASE ~Head(channel).ok -> Leave(AsVerdict(Head(channel)), None) /\ UNCHANGED <<input, asked>>
       [] Head(channel).ok /\ command = "call" -> \E r \in Requests : Ask(r)
       [] Head(channel).ok /\ command = "session" -> /\ client' = "prompt"
                                                     /\ UNCHANGED <<verdict, stop, input, asked>>
  /\ UNCHANGED <<command, platform, exit, shown, workerVars, piped, signals, killed>>

\* session_loop, for a line the user enters.
Enter ==
  /\ client = "prompt"
  /\ \/ asked < MaxRequests /\ \E r \in Requests \cup {"reload"} : Ask(r)
     \/ /\ Leave([ok |-> TRUE, code |-> 0], None)
        /\ UNCHANGED <<input, asked>>
  /\ UNCHANGED <<command, platform, exit, shown, workerVars, piped, channel, signals, killed>>

ReceiveReply ==
  /\ client = "reply" /\ channel # <<>>
  /\ channel' = Tail(channel)
  /\ shown' = Append(shown, Head(channel))
  /\ IF command = "session" THEN client' = "prompt" /\ UNCHANGED <<verdict, stop>>
     ELSE Leave(AsVerdict(Head(channel)), None)
  /\ UNCHANGED <<command, platform, asked, exit, workerVars, input, piped, signals, killed>>

\* receive finds the end of the replies.
FindGone ==
  /\ client \in {"start", "reply"} /\ channel = <<>> /\ Gone
  /\ Leave([ok |-> FALSE, code |-> 1], None)
  /\ UNCHANGED <<command, platform, asked, exit, shown, workerVars, input, piped, channel, signals, killed>>

\* Mutant: a session goes on after a request that took too long.
TimeoutGoesOn ==
  /\ client \in {"start", "reply"} /\ channel = <<>> /\ ~Gone
  /\ IF client = "reply" /\ command = "session"
     THEN client' = "prompt" /\ shown' = Append(shown, Failure(asked, 1)) /\ UNCHANGED <<verdict, stop>>
     ELSE Leave([ok |-> FALSE, code |-> 1], "timeout") /\ UNCHANGED shown
  /\ UNCHANGED <<command, platform, asked, exit, workerVars, input, piped, channel, signals, killed>>

Timeout ==
  /\ client \in {"start", "reply"} /\ channel = <<>> /\ ~Gone
  /\ Leave([ok |-> FALSE, code |-> 1], "timeout")
  /\ UNCHANGED <<command, platform, asked, exit, shown, workerVars, input, piped, channel, signals, killed>>

\* The worker receives the interrupt of a terminal too, except in a process group
\* of its own.
AlsoSignalled == signals' = IF platform = "posix" /\ ~Gone THEN signals + 1 ELSE signals

Interrupt ==
  /\ client \in {"start", "prompt", "reply"}
  /\ Leave([ok |-> FALSE, code |-> 130], "interrupted")
  /\ AlsoSignalled
  /\ UNCHANGED <<command, platform, asked, exit, shown, workerVars, input, piped, channel, killed>>

\* WorkerClient.close: the worker is asked to end, or is interrupted.
Close ==
  /\ client = "leave"
  /\ client' = IF Gone THEN "drain" ELSE "wait"
  /\ CASE Gone -> UNCHANGED <<input, piped, signals>>
       [] ~Gone /\ stop # None -> signals' = signals + 1 /\ UNCHANGED <<input, piped>>
       [] ~Gone /\ stop = None -> /\ input' = Append(input, "quit") /\ piped' = FALSE
                                  /\ UNCHANGED signals
  /\ UNCHANGED <<command, platform, asked, verdict, stop, exit, shown, workerVars, channel, killed>>

WorkerEnded ==
  /\ client \in {"wait", "terminate", "kill"} /\ Gone
  /\ client' = "drain"
  /\ UNCHANGED <<command, platform, asked, verdict, stop, exit, shown, workerVars, input, piped, channel,
                signals, killed>>

Dies == worker' = "gone" /\ killed' = TRUE

\* Three seconds have passed.  The plugin may have taken over the signal.
Terminate ==
  /\ client = "wait" /\ ~Gone
  /\ client' = "terminate"
  /\ Dies \/ UNCHANGED <<worker, killed>>
  /\ UNCHANGED <<command, platform, asked, verdict, stop, exit, shown, serving, closing, instance, service,
                broken, reading, sent, input, piped, channel, signals>>

\* And two more.
Kill ==
  /\ client = "terminate" /\ ~Gone
  /\ client' = "kill" /\ Dies
  /\ UNCHANGED <<command, platform, asked, verdict, stop, exit, shown, serving, closing, instance, service,
                broken, reading, sent, input, piped, channel, signals>>

\* Mutant: the replies that arrive during the close are not looked at.
FinalVerdictEarly == verdict

FirstFailure(s) == CHOOSE i \in Failures(s) : \A j \in Failures(s) : i <= j

\* What the worker said until its end counts too.
FinalVerdict ==
  IF verdict.ok /\ Failures(channel) # {} THEN AsVerdict(channel[FirstFailure(channel)]) ELSE verdict

Finish ==
  /\ client = "drain"
  /\ client' = "ended"
  /\ verdict' = FinalVerdict
  /\ exit' = IF stop = "interrupted" THEN 130 ELSE IF FinalVerdict.ok THEN 0 ELSE FinalVerdict.code
  /\ channel' = <<>> /\ piped' = FALSE
  /\ UNCHANGED <<command, platform, asked, stop, shown, workerVars, input, signals, killed>>

\* The user interrupts the close: the worker is left to itself.
InterruptClose ==
  /\ client \in {"leave", "wait", "terminate"}
  /\ client' = "ended" /\ exit' = 130 /\ piped' = FALSE
  /\ AlsoSignalled
  /\ UNCHANGED <<command, platform, asked, verdict, stop, shown, workerVars, input, channel, killed>>

Worker == Open \/ Read \/ Use \/ Simulate \/ Cleanup \/ CloseService \/ End \/ Interrupted

\* What the command does without its user.
Client ==
  \/ ReceiveReady \/ ReceiveReply \/ FindGone \/ Timeout \/ Close \/ WorkerEnded
  \/ Terminate \/ Kill \/ Finish

SessionNext == Worker \/ Client \/ Enter \/ Interrupt \/ InterruptClose

\* Only the command is fair: its clock runs whatever the plugin does.
SessionFairness == WF_sessionVars(Client)

SessionSpec == SessionInit /\ [][SessionNext]_sessionVars /\ SessionFairness
-----------------------------------------------------------------------------
\* A reply that is shown as a success is the one to that request, though the
\* worker may send two for one that it fails (worker.run).
SuccessesAreOwn == \A n \in DOMAIN shown : shown[n].ok => shown[n].of = n

\* The exit code 0 says that the worker is gone, was asked and has succeeded, and
\* that every failure it told, also while it ended, was shown; a call has told
\* none.  And a worker that ends by itself has cleaned up its plugin and closed
\* its service, or has told that it failed.
ExitIsHonest ==
  /\ exit = 0 =>
       /\ Gone
       /\ Failures(sent) = {} \/ command = "session"
       /\ command = "call" => shown = <<Ok(1)>>
       /\ \A i \in Failures(sent) : \E n \in DOMAIN shown : shown[n] = sent[i]
  /\ Gone /\ ~killed /\ Failures(sent) = {} => ~instance /\ service # "open"

\* Whatever the plugin does, the command ends or comes back to its user; and it
\* leaves no worker behind, unless it is interrupted while it waits for its end.
CommandEnds ==
  /\ client # "prompt" ~> client \in {"prompt", "ended"}
  /\ [](client = "ended" /\ ~Gone => exit = 130)
=============================================================================
