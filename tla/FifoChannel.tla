---------------------------- MODULE FifoChannel ----------------------------
(***************************************************************************)
(* What slt::concur::BlockingQueue promises to the threads that use it: a  *)
(* FIFO channel on which a getter blocks until something is available.     *)
(* There is no mutex, no condition variable and no wake-up here; module    *)
(* BlockingQueue has them and is shown to implement this one.              *)
(***************************************************************************)
EXTENDS Sequences, Naturals

CONSTANTS
    Getters,   \* threads that may call pop()
    Items,     \* values that may be pushed
    Nothing,   \* the value held by a getter that has popped nothing yet
    MaxLen     \* bound on the length of the channel

VARIABLES
    channel,   \* items put and not yet got, oldest first
    getting,   \* getters inside pop()
    got        \* got[g]: the item returned by g's last pop()

chVars == <<channel, getting, got>>

ChInit ==
    /\ channel = <<>>
    /\ getting = {}
    /\ got = [g \in Getters |-> Nothing]

\* A push takes effect at once and never blocks.
Put(i) ==
    /\ Len(channel) < MaxLen
    /\ channel' = Append(channel, i)
    /\ UNCHANGED <<getting, got>>

BeginGet(g) ==
    /\ g \notin getting
    /\ getting' = getting \cup {g}
    /\ UNCHANGED <<channel, got>>

\* "Block until something is available": there is no Get on an empty channel.
Get(g) ==
    /\ g \in getting
    /\ channel # <<>>
    /\ got' = [got EXCEPT ![g] = Head(channel)]
    /\ channel' = Tail(channel)
    /\ getting' = getting \ {g}

Discard ==
    /\ channel' = <<>>
    /\ UNCHANGED <<getting, got>>

ChNext ==
    \/ \E i \in Items : Put(i)
    \/ \E g \in Getters : BeginGet(g) \/ Get(g)
    \/ Discard

\* As long as there are both an item and a getter, some getter gets it.
ChFairness == WF_chVars(\E g \in Getters : Get(g))

ChSafety == ChInit /\ [][ChNext]_chVars
ChSpec == ChSafety /\ ChFairness
=============================================================================
