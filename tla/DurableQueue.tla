---------------------------- MODULE DurableQueue ----------------------------
(***************************************************************************)
(* What an outbox promises to the code that enqueues: at-least-once        *)
(* hand-off.  A ticket is submitted once, taken any number of times, put   *)
(* back after a failure, given up to an operator who may revive it, and    *)
(* finished only when the effect it asks for is in place.  A finished      *)
(* ticket stays finished and an effect is never undone.                    *)
(***************************************************************************)
CONSTANTS Ticket, Item, NoItem

VARIABLES
    item,       \* the item a ticket is for, NoItem while it is not submitted
    state,      \* ticket -> none, waiting, taken, finished or given_up
    delivered   \* items whose effect is in place

vars == <<item, state, delivered>>

Init ==
    /\ item = [t \in Ticket |-> NoItem]
    /\ state = [t \in Ticket |-> "none"]
    /\ delivered = {}

Submit(t, i) ==
    /\ state[t] = "none"
    /\ item' = [item EXCEPT ![t] = i]
    /\ state' = [state EXCEPT ![t] = "waiting"]
    /\ UNCHANGED delivered

Take(t) ==
    /\ state[t] = "waiting"
    /\ state' = [state EXCEPT ![t] = "taken"]
    /\ UNCHANGED <<item, delivered>>

\* The effect may land long after the ticket was taken, by a worker that has
\* lost it since: all it needs is a ticket that asks for it.
Deliver(i) ==
    /\ \E t \in Ticket : item[t] = i
    /\ delivered' = delivered \cup {i}
    /\ UNCHANGED <<item, state>>

Finish(t) ==
    /\ state[t] = "taken"
    /\ item[t] \in delivered
    /\ state' = [state EXCEPT ![t] = "finished"]
    /\ UNCHANGED <<item, delivered>>

\* Taken tickets go back to the queue, or to the operator, several at a time.
Taken == {t \in Ticket : state[t] = "taken"}

Return(back, out) ==
    /\ back \cup out \subseteq Taken
    /\ state' = [t \in Ticket |-> CASE t \in back -> "waiting"
                                    [] t \in out  -> "given_up"
                                    [] OTHER      -> state[t]]
    /\ UNCHANGED <<item, delivered>>

Revive(t) ==
    /\ state[t] = "given_up"
    /\ state' = [state EXCEPT ![t] = "waiting"]
    /\ UNCHANGED <<item, delivered>>

\* A ticket moves, or several return at once; or an effect lands.
Next ==
    \/ /\ state' # state
       /\ \/ \E t \in Ticket : \/ \E i \in Item : Submit(t, i)
                               \/ Take(t) \/ Finish(t) \/ Revive(t)
          \/ \E back \in SUBSET Taken : \E out \in SUBSET (Taken \ back) : Return(back, out)
    \/ \E i \in Item \ delivered : Deliver(i)

Spec == Init /\ [][Next]_vars
=============================================================================
