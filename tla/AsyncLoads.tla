----------------------------- MODULE AsyncLoads -----------------------------
(***************************************************************************)
(* What the engine promises to whoever requests a load: while the engine   *)
(* is open, and its process alive, every request is eventually answered,   *)
(* at most once, on the owner's thread; closing it loses some of the       *)
(* pending requests, and after that nothing is answered any more. What is  *)
(* decoded may never come to its end: such a request keeps its decoder,    *)
(* and when it has the last one the others that wait for a decoder are     *)
(* not answered either. Module Engine implements it.                       *)
(***************************************************************************)
EXTENDS FiniteSets, Naturals

CONSTANTS
    Requests,
    Decoded,   \* the requests whose contents are decoded before the answer
    Decoders   \* how many can be decoded at a time

VARIABLES
    open,      \* whether the owner still syncs
    pending,   \* requests made and not yet answered or lost
    hung,      \* pending requests whose decoding never ends
    answered,  \* requests answered
    lost       \* requests that will never be answered

asyncVars == <<open, pending, hung, answered, lost>>

AsyncInit ==
    /\ open = TRUE
    /\ pending = {}
    /\ hung = {}
    /\ answered = {}
    /\ lost = {}

\* A request can be made after the closing too, by a callback on a worker.
Ask(r) ==
    /\ r \notin pending \cup answered \cup lost
    /\ pending' = pending \cup {r}
    /\ UNCHANGED <<open, hung, answered, lost>>

Hang(r) ==
    /\ r \in (Decoded \cap pending) \ hung
    /\ Cardinality(hung) < Decoders
    /\ hung' = hung \cup {r}
    /\ UNCHANGED <<open, pending, answered, lost>>

Answer(r) ==
    /\ open
    /\ r \in pending \ hung
    /\ pending' = pending \ {r}
    /\ answered' = answered \cup {r}
    /\ UNCHANGED <<open, hung, lost>>

\* Closing, by the owner or by the end of the process, loses the requests
\* whose outcome was waiting for the owner.
Close ==
    /\ open
    /\ open' = FALSE
    /\ \E gone \in SUBSET (pending \ hung) :
           /\ pending' = pending \ gone
           /\ lost' = lost \cup gone
    /\ UNCHANGED <<hung, answered>>

Lose(r) ==
    /\ ~open
    /\ r \in pending \ hung
    /\ pending' = pending \ {r}
    /\ lost' = lost \cup {r}
    /\ UNCHANGED <<open, hung, answered>>

AsyncNext ==
    \/ \E r \in Requests : Ask(r) \/ Hang(r) \/ Answer(r) \/ Lose(r)
    \/ Close

\* A request can count on its answer while it needs no decoder, or some
\* decoder is not hung.
Served(r) == r \in Decoded => Cardinality(hung) < Decoders

AsyncFairness == \A r \in Requests : WF_asyncVars(Answer(r) /\ Served(r))

AsyncSafety == AsyncInit /\ [][AsyncNext]_asyncVars
AsyncSpec == AsyncSafety /\ AsyncFairness
=============================================================================
