---------------------------- MODULE FileService ----------------------------
(***************************************************************************)
(* The asynchronous filesystem of src/slt/file/file.cpp: the queue         *)
(* pending_load_operations and the one Worker, filesystem_thread, that     *)
(* serves it. The thread reads one file at a time and then hands the       *)
(* outcome to somebody else's queue; that hand-over is Emitted here and is *)
(* joined with the push on the other queue in module Engine.               *)
(*                                                                         *)
(* The queue is a FifoChannel, as in WorkerPool.                           *)
(***************************************************************************)
EXTENDS Sequences, Naturals

CONSTANTS
    Requests,  \* the calls of asyncRead and asyncReadtoWorker
    Pill       \* the empty std::function that stops the thread

VARIABLES
    loads,   \* pending_load_operations
    fs,      \* where Worker::main of filesystem_thread is
    req,     \* the operation it popped last
    posted,  \* requests made so far
    result   \* result[r]: what reading the file of r gave

fileVars == <<loads, fs, req, posted, result>>

\* What can come of reading a file: contents that are what they should be, or
\* contents that open but on which a decoder gets nowhere, or no contents that
\* anybody can open, because file::read threw or the file holds something else.
Outcomes == {"data", "damaged", "error"}

FileTypeOK ==
    /\ loads \in Seq(Requests \cup {Pill})
    /\ fs \in {"none", "popping", "reading", "emitting", "exited"}
    /\ req \in Requests \cup {Pill}
    /\ fs \in {"reading", "emitting"} => req # Pill
    /\ posted \subseteq Requests
    /\ result \in [Requests -> {"pending"} \cup Outcomes]

FileInit ==
    /\ loads = <<>>
    /\ fs = "none"
    /\ req = Pill
    /\ posted = {}
    /\ result = [r \in Requests |-> "pending"]

-----------------------------------------------------------------------------
\* startFilesystemThread
StartThread ==
    /\ fs = "none"
    /\ fs' = "popping"
    /\ UNCHANGED <<loads, req, posted, result>>

\* asyncRead, asyncReadtoWorker: push the operation and return.
Post(r) ==
    /\ r \notin posted
    /\ posted' = posted \cup {r}
    /\ loads' = Append(loads, r)
    /\ UNCHANGED <<fs, req, result>>

TakeRequest ==
    /\ fs = "popping"
    /\ loads # <<>>
    /\ Head(loads) # Pill
    /\ req' = Head(loads)
    /\ loads' = Tail(loads)
    /\ fs' = "reading"
    /\ UNCHANGED <<posted, result>>

\* file::read returns the contents, whatever they are, or throws ReadError.
ReadReturns ==
    /\ fs = "reading"
    /\ \E outcome \in Outcomes : result' = [result EXCEPT ![req] = outcome]
    /\ fs' = "emitting"
    /\ UNCHANGED <<loads, req, posted>>

\* The operation has queued the outcome, whatever it was, and returns.
Emitted ==
    /\ fs = "emitting"
    /\ fs' = "popping"
    /\ UNCHANGED <<loads, req, posted, result>>

TakeStop ==
    /\ fs = "popping"
    /\ loads # <<>>
    /\ Head(loads) = Pill
    /\ req' = Pill
    /\ loads' = Tail(loads)
    /\ fs' = "exited"
    /\ UNCHANGED <<posted, result>>

\* stopFilesystemThread: pending_load_operations.push(nullptr).
PushStop ==
    /\ loads' = Append(loads, Pill)
    /\ UNCHANGED <<fs, req, posted, result>>

\* stopFilesystemThread: filesystem_thread.reset() joins the thread.
JoinThread ==
    /\ fs = "exited"
    /\ fs' = "none"
    /\ UNCHANGED <<loads, req, posted, result>>
=============================================================================
