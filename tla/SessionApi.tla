----------------------------- MODULE SessionApi -----------------------------
(***************************************************************************)
(* What the session layer promises a program: a handle names one           *)
(* connection from lxi_connect until lxi_disconnect, or lxi_init, takes it *)
(* back, no two handles name the same connection, and a connection is      *)
(* never closed while a thread is using it.                                *)
(***************************************************************************)
CONSTANTS Threads, Handles, Connections, None

VARIABLES
    handles,    \* the connection each handle names, or None
    user        \* the connection each thread is sending or receiving on

vars == <<handles, user>>

Init ==
    /\ handles = [h \in Handles |-> None]
    /\ user    = [t \in Threads |-> None]

(* A free handle is given a connection no handle names and nobody uses.    *)
Connect(h, c) ==
    /\ handles[h] = None
    /\ \A k \in Handles : handles[k] # c
    /\ \A t \in Threads : user[t] # c
    /\ handles' = [handles EXCEPT ![h] = c]
    /\ UNCHANGED user

(* A thread begins to send or receive on the connection its handle names.  *)
Enter(t, h) ==
    /\ user[t] = None
    /\ handles[h] # None
    /\ user' = [user EXCEPT ![t] = handles[h]]
    /\ UNCHANGED handles

Leave(t) ==
    /\ user[t] # None
    /\ user' = [user EXCEPT ![t] = None]
    /\ UNCHANGED handles

Disconnect(h) ==
    /\ handles[h] # None
    /\ \A t \in Threads : user[t] # handles[h]
    /\ handles' = [handles EXCEPT ![h] = None]
    /\ UNCHANGED user

Next ==
    \/ \E h \in Handles, c \in Connections : Connect(h, c)
    \/ \E t \in Threads, h \in Handles : Enter(t, h)
    \/ \E t \in Threads : Leave(t)
    \/ \E h \in Handles : Disconnect(h)

Spec == Init /\ [][Next]_vars
=============================================================================
