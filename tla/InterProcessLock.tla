-------------------------- MODULE InterProcessLock --------------------------
(***************************************************************************)
(* storage/interprocess_lock.py: one lock file, an operating system lock   *)
(* on it that is polled without blocking, a timeout, and a client that may *)
(* be cancelled, fail or die at any step.                                  *)
(*                                                                         *)
(* A client is one InterProcessFileLock object; clients live in different  *)
(* processes, so their steps interleave at every file system call.  The    *)
(* platform decides how the file comes to exist: POSIX opens it with       *)
(* O_CREAT, Windows publishes a closed nonempty temporary file by a rename *)
(* that refuses an existing destination.  An inode is named after the      *)
(* client that created it.  The file is never removed by the program.      *)
(***************************************************************************)
EXTENDS Integers

CONSTANTS Clients,   \* lock objects contending for the path
          None,      \* no inode, no client
          Timeout    \* timeout_seconds, in polling intervals

ASSUME NoneAssumption == None \notin Clients
ASSUME TimeoutAssumption == Timeout \in Nat

Platforms == {"posix", "windows"}

Steps == {"idle", "open", "publish", "rename", "restat", "verify", "reopen",
          "polling", "sleeping", "acquired", "held", "failed"}

Errors == {"none", "timeout", "other"}

VARIABLES
  platform,   \* os.name
  file,       \* inode at the lock path, None before it exists
  nonempty,   \* inodes that hold the lock byte
  osLock,     \* osLock[i]: client whose open file has the OS lock on inode i
  step,       \* step[c]: where client c is in acquire() or release()
  stream,     \* stream[c]: inode c's open file refers to
  expected,   \* expected[c]: inode c saw at the path before opening it
  remaining,  \* remaining[c]: intervals left before c's deadline
  error       \* error[c]: how c's last acquire() failed, "none" otherwise

vars == <<platform, file, nonempty, osLock, step, stream, expected, remaining, error>>

Inodes == Clients

Opening == {"open", "publish", "rename", "restat", "verify", "reopen"}
Waiting == {"polling", "sleeping"}
Owning == {"acquired", "held"}

Init ==
  /\ platform \in Platforms
  /\ file = None
  /\ nonempty = {}
  /\ osLock = [i \in Inodes |-> None]
  /\ step = [c \in Clients |-> "idle"]
  /\ stream = [c \in Clients |-> None]
  /\ expected = [c \in Clients |-> None]
  /\ remaining = [c \in Clients |-> 0]
  /\ error = [c \in Clients |-> "none"]

Goto(c, s) == step' = [step EXCEPT ![c] = s]

\* Closing an open file drops the OS lock it has, whether or not the explicit
\* unlock before it worked.
Unlocked(c) == [i \in Inodes |-> IF osLock[i] = c THEN None ELSE osLock[i]]

\* acquire(): a second acquire on an object that holds is refused, so the
\* client is idle or its last attempt failed.
Begin(c) ==
  /\ step[c] \in {"idle", "failed"}
  /\ Goto(c, "open")
  /\ expected' = [expected EXCEPT ![c] = None]
  /\ error' = [error EXCEPT ![c] = "none"]
  /\ UNCHANGED <<platform, file, nonempty, osLock, stream, remaining>>

\* The deadline is set after the file is open.
Opened(c, inode) ==
  /\ Goto(c, "polling")
  /\ stream' = [stream EXCEPT ![c] = inode]
  /\ remaining' = [remaining EXCEPT ![c] = Timeout]

OpenPosix(c) ==
  /\ platform = "posix"
  /\ step[c] = "open"
  /\ LET inode == IF file = None THEN c ELSE file
     IN file' = inode /\ Opened(c, inode)
  /\ UNCHANGED <<platform, nonempty, osLock, expected, error>>

StatWindows(c) ==
  /\ platform = "windows"
  /\ step[c] = "open"
  /\ expected' = [expected EXCEPT ![c] = file]
  /\ Goto(c, IF file = None THEN "publish" ELSE "verify")
  /\ UNCHANGED <<platform, file, nonempty, osLock, stream, remaining, error>>

\* The temporary file is written, closed and checked, then the path looked at
\* again: a file published meanwhile is used and the temporary one removed.
StageTemporary(c) ==
  /\ step[c] = "publish"
  /\ nonempty' = nonempty \cup {c}
  /\ Goto(c, IF file = None THEN "rename" ELSE "restat")
  /\ UNCHANGED <<platform, file, osLock, stream, expected, remaining, error>>

\* A rename that refuses to replace: FileExistsError means somebody else
\* published first, and the temporary file is removed.
RenameTemporary(c) ==
  /\ step[c] = "rename"
  /\ file' = IF file = None THEN c ELSE file
  /\ Goto(c, "restat")
  /\ UNCHANGED <<platform, nonempty, osLock, stream, expected, remaining, error>>

RestatWindows(c) ==
  /\ step[c] = "restat"
  /\ expected' = [expected EXCEPT ![c] = file]
  /\ Goto(c, "verify")
  /\ UNCHANGED <<platform, file, nonempty, osLock, stream, remaining, error>>

\* The path is opened without O_CREAT and must be the file seen before.
OpenWindows(c) ==
  /\ step[c] \in {"verify", "reopen"}
  /\ file # None
  /\ file = expected[c]
  /\ Opened(c, file)
  /\ UNCHANGED <<platform, file, nonempty, osLock, expected, error>>

\* A sharing violation is retried once, after one polling interval.
SharingViolation(c) ==
  /\ step[c] = "verify"
  /\ Goto(c, "reopen")
  /\ UNCHANGED <<platform, file, nonempty, osLock, stream, expected, remaining, error>>

\* Any other error while opening, or a second sharing violation, or a
\* cancellation in the interval before the retry: no stream is left open.
OpenFails(c) ==
  /\ step[c] \in Opening
  /\ Goto(c, "failed")
  /\ error' = [error EXCEPT ![c] = "other"]
  /\ UNCHANGED <<platform, file, nonempty, osLock, stream, expected, remaining>>

\* Mutant: an error of the lock call is taken for success.
PollAlwaysSucceeds(c) ==
  /\ step[c] = "polling"
  /\ osLock' = [osLock EXCEPT ![stream[c]] = c]
  /\ Goto(c, "acquired")
  /\ UNCHANGED <<platform, file, nonempty, stream, expected, remaining, error>>

PollSucceeds(c) ==
  /\ step[c] = "polling"
  /\ osLock[stream[c]] = None
  /\ osLock' = [osLock EXCEPT ![stream[c]] = c]
  /\ Goto(c, "acquired")
  /\ UNCHANGED <<platform, file, nonempty, stream, expected, remaining, error>>

\* Mutant: the deadline is not looked at.
PollFailsForever(c) ==
  /\ step[c] = "polling"
  /\ osLock[stream[c]] # None
  /\ Goto(c, "sleeping")
  /\ UNCHANGED <<platform, file, nonempty, osLock, stream, expected, remaining, error>>

PollFails(c) ==
  /\ step[c] = "polling"
  /\ osLock[stream[c]] # None
  /\ remaining[c] > 0
  /\ Goto(c, "sleeping")
  /\ UNCHANGED <<platform, file, nonempty, osLock, stream, expected, remaining, error>>

\* _abort_acquisition: unlock when acquired, close the stream.
Abort(c, reason) ==
  /\ osLock' = Unlocked(c)
  /\ stream' = [stream EXCEPT ![c] = None]
  /\ error' = [error EXCEPT ![c] = reason]
  /\ Goto(c, "failed")

TimesOut(c) ==
  /\ step[c] = "polling"
  /\ osLock[stream[c]] # None
  /\ remaining[c] = 0
  /\ Abort(c, "timeout")
  /\ UNCHANGED <<platform, file, nonempty, expected, remaining>>

\* One interval passes: sleepers poll again, every deadline comes nearer.  A
\* deadline may also run down while a client is slow to poll.
Tick ==
  /\ \E c \in Clients : step[c] \in Waiting
  /\ step' = [c \in Clients |-> IF step[c] = "sleeping" THEN "polling" ELSE step[c]]
  /\ remaining' = [c \in Clients |->
       IF step[c] \in Waiting /\ remaining[c] > 0 THEN remaining[c] - 1 ELSE remaining[c]]
  /\ UNCHANGED <<platform, file, nonempty, osLock, stream, expected, error>>

\* _ensure_lock_byte, under the lock, then the object records its stream.
Initialize(c) ==
  /\ step[c] = "acquired"
  /\ nonempty' = nonempty \cup {stream[c]}
  /\ Goto(c, "held")
  /\ UNCHANGED <<platform, file, osLock, stream, expected, remaining, error>>

\* Cancellation while sleeping, an error from the backend, or a failed write
\* of the lock byte.
Interrupted(c) ==
  /\ step[c] \in Waiting \cup {"acquired"}
  /\ Abort(c, "other")
  /\ UNCHANGED <<platform, file, nonempty, expected, remaining>>

\* release(): the object forgets its stream first and closes it in every case,
\* so a failed unlock frees the lock too.
Release(c) ==
  /\ step[c] = "held"
  /\ osLock' = Unlocked(c)
  /\ stream' = [stream EXCEPT ![c] = None]
  /\ Goto(c, "idle")
  /\ UNCHANGED <<platform, file, nonempty, expected, remaining, error>>

\* The process dies: the operating system closes its files.
Crash(c) ==
  /\ step[c] \notin {"idle", "failed"}
  /\ osLock' = Unlocked(c)
  /\ stream' = [stream EXCEPT ![c] = None]
  /\ Goto(c, "idle")
  /\ UNCHANGED <<platform, file, nonempty, expected, remaining, error>>

ClientStep(c) ==
  \/ OpenPosix(c) \/ StatWindows(c) \/ StageTemporary(c) \/ RenameTemporary(c)
  \/ RestatWindows(c) \/ OpenWindows(c)
  \/ PollSucceeds(c) \/ PollFails(c) \/ TimesOut(c) \/ Initialize(c)

ClientNext(c) ==
  \/ Begin(c) \/ ClientStep(c)
  \/ SharingViolation(c) \/ OpenFails(c) \/ Interrupted(c)
  \/ Release(c) \/ Crash(c)

Next == Tick \/ \E c \in Clients : ClientNext(c)

Spec == Init /\ [][Next]_vars

\* A running process continues its acquire() and time passes.  Nobody is
\* obliged to release: the timeout has to be enough.
Fairness == WF_vars(Tick) /\ \A c \in Clients : WF_vars(ClientStep(c))

FairSpec == Spec /\ Fairness

----------------------------------------------------------------------------

\* Every variable has its type.
TypeOK ==
  /\ platform \in Platforms
  /\ file \in Inodes \cup {None}
  /\ nonempty \subseteq Inodes
  /\ osLock \in [Inodes -> Clients \cup {None}]
  /\ step \in [Clients -> Steps]
  /\ stream \in [Clients -> Inodes \cup {None}]
  /\ expected \in [Clients -> Inodes \cup {None}]
  /\ remaining \in [Clients -> 0..Timeout]
  /\ error \in [Clients -> Errors]

\* The file at the path is the one every open lock stream refers to, however
\* many processes raced to create it: two clients can never lock two files.
OneLockFile ==
  \A c \in Clients :
    /\ stream[c] # None <=> step[c] \in Waiting \cup Owning
    /\ stream[c] # None => stream[c] = file

\* The operating system lock and the step of the client agree: no path out of
\* acquire() or release() leaves the lock taken, none believes it has it when
\* it has not.
LockMatchesStep ==
  \A c \in Clients : \A i \in Inodes :
    osLock[i] = c <=> step[c] \in Owning /\ stream[c] = i

\* Two clients never both own the lock.
MutualExclusion ==
  \A c, d \in Clients : step[c] \in Owning /\ step[d] \in Owning => c = d

\* acquire() never reports success on an empty file: Windows locks byte 0.
HeldHasByte == \A c \in Clients : step[c] = "held" => file \in nonempty

\* Without an error or an interruption, acquire() gives up only at its
\* deadline and only when a poll at that moment found the lock taken by
\* another client.
GivesUpOnlyAtDeadline ==
  [][\A c \in Clients :
       error[c] # "timeout" /\ error'[c] = "timeout"
       => remaining[c] = 0 /\ osLock[stream[c]] \notin {None, c}]_vars

\* An acquire() that was begun ends, with the lock or with an error.
AcquireEnds ==
  \A c \in Clients : step[c] \in Opening \cup Waiting
                     ~> step[c] \in {"held", "failed", "idle"}

\* The lock as its users see it.
Holder == IF \E c \in Clients : step[c] \in Owning
            THEN CHOOSE c \in Clients : step[c] \in Owning
            ELSE None

AbstractLock == INSTANCE Mutex WITH holder <- Holder

\* The protocol implements the mutex, through crashes, timeouts and
\* cancellations.
ImplementsMutex == AbstractLock!Spec

=============================================================================
