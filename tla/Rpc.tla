-------------------------------- MODULE Rpc ---------------------------------
(***************************************************************************)
(* What send_request_and_recv_response promises its caller, without lists, *)
(* threads or wire: a call is pending until it is answered, and while the  *)
(* layer runs it does not stay pending.  The promise is weak in two places *)
(* and the code is no better: a call may be stranded (nobody will set its  *)
(* promise, and it blocks for ever unless a late answer finds it), and one *)
(* whose id is not unique may be given somebody else's text.               *)
(***************************************************************************)
CONSTANTS Calls, Ids, NoId

VARIABLES phase,    \* per call: "idle", "pending", "stranded", "answered", "misled"
          id,       \* per call: the id drawn for its request
          taken,    \* ids the server has used for requests of its own
          running   \* the threads of the layer are alive

vars == <<phase, id, taken, running>>

Init == /\ phase = [c \in Calls |-> "idle"]
        /\ id = [c \in Calls |-> NoId]
        /\ taken = {}
        /\ running = FALSE

Pending == {c \in Calls : phase[c] = "pending"}

Stranded(S) == [c \in Calls |-> IF c \in S THEN "stranded" ELSE phase[c]]

\* The id of c does not tell its response from another text.
Ambiguous(c) == id[c] \in taken \/ \E d \in Calls \ {c} : id[d] = id[c]

\* A new call, which may take the place of pending ones with its id.
Issue(c) ==
    /\ phase[c] = "idle"
    /\ \E i \in Ids : id' = [id EXCEPT ![c] = i]
    /\ \E S \in SUBSET Pending : phase' = [Stranded(S) EXCEPT ![c] = "pending"]
    /\ UNCHANGED <<taken, running>>

\* One promise is set, and it is set once.
Answer(c) ==
    /\ phase[c] \in {"pending", "stranded"}
    /\ \/ phase' = [phase EXCEPT ![c] = "answered"]
       \/ Ambiguous(c) /\ phase' = [phase EXCEPT ![c] = "misled"]
    /\ UNCHANGED <<id, taken, running>>

Strand ==
    /\ \E S \in SUBSET Pending : phase' = Stranded(S)
    /\ UNCHANGED <<id, taken, running>>

ServerTakes ==
    /\ \E i \in Ids : taken' = taken \cup {i}
    /\ UNCHANGED <<phase, id, running>>

StartOrDie ==
    /\ running' = ~running
    /\ UNCHANGED <<phase, id, taken>>

Next == \/ \E c \in Calls : Issue(c) \/ Answer(c)
        \/ Strand \/ ServerTakes \/ StartOrDie

\* While the layer runs no call stays pending.
Settles == \A c \in Calls :
              (phase[c] = "pending" /\ running) ~> (phase[c] # "pending" \/ ~running)

Safety == Init /\ [][Next]_vars

Spec == Safety /\ Settles
=============================================================================
