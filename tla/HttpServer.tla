----------------------------- MODULE HttpServer -----------------------------
(***************************************************************************)
(* http_server.h, http_server.cpp and RunWorkers of main.cpp: the          *)
(* connections, one Session each, whose requests for the API are handled   *)
(* one by one on a strand by a pool of threads.  What the requests are is  *)
(* left to the module that extends this one.                               *)
(*                                                                         *)
(* The timer of 30 s is set before a request is read and runs on while the *)
(* request waits for the strand.  OnRead and OnWrite log the address of    *)
(* the peer: remote_endpoint() throws on a socket that is closed or reset, *)
(* in OnWrite before the error code is looked at, and an exception leaves  *)
(* ioc.run().  In a jthread that is std::terminate; in the main thread it  *)
(* unwinds RunWorkers, which then waits for the other threads to end.      *)
(*                                                                         *)
(* Static content, whose requests are handled without the strand, is left  *)
(* out; so is the orderly stop (see Server).                               *)
(***************************************************************************)
EXTENDS Naturals, Sequences, Functions

CONSTANTS
  Connections,  \* the connections a browser opens to a server
  Workers,      \* the threads of RunWorkers
  Main,         \* the one that runs main
  MaxFaults     \* bound: connections that are lost or late, failing accepts

ASSUME HttpAssumptions == Main \in Workers /\ MaxFaults \in Nat

VARIABLES
  conn,      \* connection -> "closed", or what its Session waits for
  carried,   \* connection -> its request, from the browser's send to OnWrite
  strand,    \* the connections whose requests wait on the API strand
  late,      \* connections whose timer has run out after OnRead
  gone,      \* connections the browser has given up or lost
  accepting, \* the Listener has called async_accept
  workers,   \* the threads in ioc.run()
  process,   \* "running" or "terminated"
  faults     \* history: faults so far

http == <<conn, carried, strand, late, gone, accepting, workers, process, faults>>

Serving == process = "running" /\ workers # {}

-----------------------------------------------------------------------------
\* OnAccept starts a Session and accepts the next; after an error it does not.
OnAccept(c) ==
  /\ Serving /\ accepting /\ conn[c] = "closed"
  /\ conn' = [conn EXCEPT ![c] = "reading"]
  /\ UNCHANGED <<carried, strand, late, gone, accepting, workers, process, faults>>

AcceptFails ==
  /\ Serving /\ accepting /\ faults < MaxFaults
  /\ accepting' = FALSE
  /\ faults' = faults + 1
  /\ UNCHANGED <<conn, carried, strand, late, gone, workers, process>>

\* The browser sends r on a connection that carries nothing.
Send(c, r) ==
  /\ conn[c] = "reading" /\ c \notin DOMAIN carried \cup gone
  /\ carried' = [d \in DOMAIN carried \cup {c} |-> IF d = c THEN r ELSE carried[d]]
  /\ UNCHANGED <<conn, strand, late, gone, accepting, workers, process, faults>>

OnRead(c) ==
  /\ Serving /\ conn[c] = "reading" /\ c \in DOMAIN carried
  /\ conn' = [conn EXCEPT ![c] = "queued"]
  /\ strand' = Append(strand, c)
  /\ UNCHANGED <<carried, late, gone, accepting, workers, process, faults>>

\* HandleAPIRequest, in the order of the strand: the answer is written next.
Handle ==
  /\ Serving /\ strand # << >>
  /\ conn' = [conn EXCEPT ![Head(strand)] = "writing"]
  /\ strand' = Tail(strand)
  /\ UNCHANGED <<carried, late, gone, accepting, workers, process, faults>>

\* The connection ends on the server's side.
Ends(c) ==
  /\ conn' = [conn EXCEPT ![c] = "closed"]
  /\ carried' = Restrict(carried, DOMAIN carried \ {c})
  /\ late' = late \ {c} /\ gone' = gone \ {c}

\* Mutant: OnWrite does not read again.
NotRearmed == "written"

\* OnWrite ends in Read.
Rearmed == "reading"

\* The answer went out in time; a peer that is gone ends the session at the
\* next read.
OnWrite(c) ==
  /\ Serving /\ conn[c] = "writing"
  /\ IF c \in gone
     THEN Ends(c)
     ELSE /\ conn' = [conn EXCEPT ![c] = Rearmed]
          /\ carried' = Restrict(carried, DOMAIN carried \ {c})
          /\ late' = late \ {c}
          /\ UNCHANGED gone
  /\ UNCHANGED <<strand, accepting, workers, process, faults>>

\* An exception leaves ioc.run() in some thread.
WorkerDies ==
  \/ /\ Main \in workers /\ Workers # {Main}
     /\ workers' = workers \ {Main}
     /\ UNCHANGED process
  \/ /\ workers \ {Main} # {} \/ Workers = {Main}
     /\ process' = "terminated"
     /\ UNCHANGED workers

\* remote_endpoint() throws: in OnRead of a connection that was reset behind
\* its request, in OnWrite when the write was late or found it reset.
Throws(c) ==
  /\ Serving
  /\ \/ conn[c] = "reading" /\ c \in DOMAIN carried /\ c \in gone
     \/ conn[c] = "writing" /\ c \in gone \cup late
  /\ Ends(c)
  /\ WorkerDies
  /\ UNCHANGED <<strand, accepting, faults>>

\* Mutant: the timer also ends a session that waits for its handler.
TimesOutAnywhere(c) ==
  /\ Serving /\ faults < MaxFaults /\ faults' = faults + 1
  /\ conn[c] # "closed" /\ Ends(c)
  /\ UNCHANGED <<strand, accepting, workers, process>>

\* The 30 s are over.  A session that reads ends with an error that is reported.
TimesOut(c) ==
  /\ Serving /\ faults < MaxFaults /\ faults' = faults + 1
  /\ \/ conn[c] = "reading" /\ Ends(c)
     \/ /\ conn[c] \in {"queued", "writing"}
        /\ late' = late \cup {c}
        /\ UNCHANGED <<conn, carried, gone>>
  /\ UNCHANGED <<strand, accepting, workers, process>>

\* The connection was reset before its request was read: OnRead reports that.
ReadFails(c) ==
  /\ Serving /\ conn[c] = "reading" /\ c \in DOMAIN carried /\ c \in gone
  /\ Ends(c)
  /\ UNCHANGED <<strand, accepting, workers, process, faults>>

\* The browser or the network ends the connection.  Without a request OnRead
\* reports the error, or sees the end of the stream; then shutdown() in Close
\* throws if the peer has reset the connection by now.
PeerLeaves(c) ==
  /\ conn[c] # "closed" /\ c \notin gone
  /\ faults < MaxFaults /\ faults' = faults + 1
  /\ \/ /\ c \in DOMAIN carried
        /\ gone' = gone \cup {c}
        /\ UNCHANGED <<conn, carried, late, workers, process>>
     \/ /\ c \notin DOMAIN carried
        /\ Ends(c)
        /\ UNCHANGED <<workers, process>> \/ (Serving /\ WorkerDies)
  /\ UNCHANGED <<strand, accepting>>

HttpInit ==
  /\ conn = [c \in Connections |-> "closed"]
  /\ carried = << >> /\ strand = << >>
  /\ late = {} /\ gone = {} /\ faults = 0
  /\ accepting = TRUE /\ workers = Workers /\ process = "running"

-----------------------------------------------------------------------------
(* Properties.                                                             *)

\* Each request that was read waits on the strand, once, or is being answered;
\* a timer or a peer may end a session that reads but not one that waits.
StrandHoldsTheQueued ==
  /\ IsInjective(strand)
  /\ Range(strand) = {c \in Connections : conn[c] = "queued"}
  /\ {c \in Connections : conn[c] \in {"queued", "writing"}} \subseteq DOMAIN carried
  /\ late \subseteq DOMAIN carried
=============================================================================
