----------------------------- MODULE TLSDialer -----------------------------
(***************************************************************************)
(* What a model.TLSDialer promises to its caller, as the code in src/      *)
(* relies upon it: a dial owns the connections it opens until it returns;  *)
(* on success it hands over exactly one open connection; and whatever it   *)
(* returns, no other connection is open then or later.                     *)
(***************************************************************************)
CONSTANT Conns        \* the connections that a dial may open

VARIABLES conn,       \* the state of every connection
          retConn,    \* the connection that has been returned
          retErr      \* the error that has been returned

NoConn == 0
Pending == retErr = "pending"
Errors == {"badEndpoint", "joinedErrors", "errDNSNoAnswer"}

Init == /\ conn = [c \in Conns |-> "none"]
        /\ retConn = NoConn
        /\ retErr = "pending"

\* The dial opens a connection, each at most once
Open(c) == /\ Pending
           /\ conn[c] = "none"
           /\ conn' = [conn EXCEPT ![c] = "open"]
           /\ UNCHANGED <<retConn, retErr>>

\* The dial closes a connection that it is not going to return
Close(c) == /\ Pending
            /\ conn[c] = "open"
            /\ conn' = [conn EXCEPT ![c] = "closed"]
            /\ UNCHANGED <<retConn, retErr>>

\* The caller gets an open connection; the others are closed
ReturnConn(c) ==
  /\ Pending
  /\ conn[c] = "open"
  /\ conn' = [d \in Conns |->
                IF d # c /\ conn[d] = "open" THEN "closed" ELSE conn[d]]
  /\ retConn' = c
  /\ retErr' = "nil"

\* The caller gets an error; no connection is left open
ReturnError(e) ==
  /\ Pending
  /\ \A c \in Conns : conn[c] # "open"
  /\ retErr' = e
  /\ UNCHANGED <<conn, retConn>>

Next == \/ \E c \in Conns : Open(c) \/ Close(c) \/ ReturnConn(c)
        \/ \E e \in Errors : ReturnError(e)

Spec == Init /\ [][Next]_<<conn, retConn, retErr>>
=============================================================================
