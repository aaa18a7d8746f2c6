------------------------------- MODULE Server -------------------------------
(***************************************************************************)
(* The life of the server (cmd/serve.go, server/server.go) around the      *)
(* queries that it answers and the log that they fill.  The listeners      *)
(* start on their own; one goroutine waits for a signal or for the first   *)
(* error of a listener, stops the DNS listeners after a signal, one after  *)
(* the other, and lets the program return.  The HTTP listener is closed    *)
(* only then.  What a query goes through in the chain is left open.        *)
(***************************************************************************)
EXTENDS QueryLog

CONSTANTS
  Queries,      \* queries that are sent
  DnsServers,   \* dnsServers, in the order in which they are stopped
  Http,         \* the listener for HTTP
  Via           \* Via[q]: listener that q is sent to

Listeners == Range(DnsServers) \cup {Http}

ASSUME ServerAssumption ==
  /\ DnsServers \in Seq(Range(DnsServers)) \ {<<>>}
  /\ IsInjective(DnsServers) /\ Http \notin Range(DnsServers)
  /\ Via \in [Queries -> Listeners]

VARIABLES
  listener,   \* listener[l]: "starting", "serving", "failed" or "closed"
  query,      \* query[q]: "unsent", "resolving", "logging", "returning", "replied"
  signals,    \* the channel has a signal
  errChan,    \* the channel has an error
  main,       \* "running", "stopping", "done" or "exited"
  stopAt,     \* index of the server that Stop is at
  stopped     \* Stop has stopped all servers

serverVars == <<listener, query, signals, errChan, main, stopAt, stopped>>

programVars == <<logVars, serverVars>>

ServerInit ==
  /\ LogInit
  /\ listener = [l \in Listeners |-> IF l = Http THEN "serving" ELSE "starting"]
  /\ query = [q \in Queries |-> "unsent"]
  /\ signals = FALSE /\ errChan = FALSE
  /\ main = "running" /\ stopAt = 1 /\ stopped = FALSE

Running == main # "exited"

InFlight(l) ==
  {q \in Queries : Via[q] = l /\ query[q] \in {"resolving", "logging", "returning"}}

-----------------------------------------------------------------------------
(* ListenAndServe and Serve. *)
ListenerStarts(l) ==
  /\ Running /\ listener[l] = "starting"
  /\ listener' = [listener EXCEPT ![l] = "serving"]
  /\ UNCHANGED <<logVars, query, signals, errChan, main, stopAt, stopped>>

ListenerFails(l) ==
  /\ Running /\ listener[l] \in {"starting", "serving"}
  /\ listener' = [listener EXCEPT ![l] = IF @ = "starting" THEN "failed"
                                                           ELSE "closed"]
  /\ errChan' = TRUE
  /\ UNCHANGED <<logVars, query, signals, main, stopAt, stopped>>

-----------------------------------------------------------------------------
(* OnRequest *)
Receive(q) ==
  /\ Running /\ query[q] = "unsent" /\ listener[Via[q]] = "serving"
  /\ query' = [query EXCEPT ![q] = "resolving"]
  /\ UNCHANGED <<logVars, listener, signals, errChan, main, stopAt, stopped>>

(* The rest of the chain returns, within its timeouts: an answer that is   *)
(* logged, or an error, a panic or an answer that is not.                  *)
Resolved(q, stage) ==
  /\ Running /\ query[q] = "resolving"
  /\ query' = [query EXCEPT ![q] = stage]
  /\ UNCHANGED <<logVars, listener, signals, errChan, main, stopAt, stopped>>

Log(q) ==
  /\ Running /\ query[q] = "logging"
  /\ LogEntry(q)
  /\ query' = [query EXCEPT ![q] = "returning"]
  /\ UNCHANGED <<listener, signals, errChan, main, stopAt, stopped>>

(* handleReq writes the reply. *)
Reply(q) ==
  /\ Running /\ query[q] = "returning"
  /\ query' = [query EXCEPT ![q] = "replied"]
  /\ UNCHANGED <<logVars, listener, signals, errChan, main, stopAt, stopped>>

LogStep ==
  /\ Running
  /\ WriterStep
  /\ UNCHANGED serverVars

-----------------------------------------------------------------------------
Signal ==
  /\ Running /\ ~signals
  /\ signals' = TRUE
  /\ UNCHANGED <<logVars, listener, query, errChan, main, stopAt, stopped>>

(* The goroutine of startServer. *)
HandleSignal ==
  /\ main = "running" /\ signals
  /\ main' = "stopping"
  /\ UNCHANGED <<logVars, listener, query, signals, errChan, stopAt, stopped>>

HandleError ==
  /\ main = "running" /\ errChan
  /\ main' = "done"
  /\ UNCHANGED <<logVars, listener, query, signals, errChan, stopAt, stopped>>

(* Stop: ShutdownContext of a server that has not started is an error,     *)
(* which leaves the servers after it alone.                                *)
StopFails ==
  /\ main = "stopping"
  /\ listener[DnsServers[stopAt]] \in {"starting", "failed"}
  /\ main' = "done"
  /\ UNCHANGED <<logVars, listener, query, signals, errChan, stopAt, stopped>>

(* It takes no more queries. *)
StopListening ==
  /\ main = "stopping"
  /\ listener[DnsServers[stopAt]] = "serving"
  /\ listener' = [listener EXCEPT ![DnsServers[stopAt]] = "closed"]
  /\ UNCHANGED <<logVars, query, signals, errChan, main, stopAt, stopped>>

StopNext ==
  /\ IF stopAt = Len(DnsServers)
     THEN main' = "done" /\ stopped' = TRUE /\ UNCHANGED stopAt
     ELSE stopAt' = stopAt + 1 /\ UNCHANGED <<main, stopped>>
  /\ UNCHANGED <<logVars, listener, query, signals, errChan>>

(* Mistake: it does not wait for the queries. *)
StopServerAtOnce ==
  /\ main = "stopping"
  /\ listener[DnsServers[stopAt]] = "closed"
  /\ StopNext

(* Mistake: it also waits until the log is written. *)
StopServerAndLog ==
  /\ main = "stopping"
  /\ listener[DnsServers[stopAt]] = "closed"
  /\ InFlight(DnsServers[stopAt]) = {}
  /\ logChan = <<>>
  /\ StopNext

(* It waits for the queries that it has taken. *)
StopServer ==
  /\ main = "stopping"
  /\ listener[DnsServers[stopAt]] = "closed"
  /\ InFlight(DnsServers[stopAt]) = {}
  /\ StopNext

(* startServer returns: the context is cancelled and the program ends. *)
Exit ==
  /\ main = "done"
  /\ main' = "exited"
  /\ UNCHANGED <<logVars, listener, query, signals, errChan, stopAt, stopped>>

StopStep == HandleSignal \/ HandleError \/ StopFails \/ StopListening \/ StopServer \/ Exit

ServerNext ==
  \/ \E l \in Listeners : ListenerStarts(l) \/ ListenerFails(l)
  \/ \E q \in Queries :
       \/ Receive(q)
       \/ \E stage \in {"logging", "returning"} : Resolved(q, stage)
       \/ Log(q)
       \/ Reply(q)
  \/ LogStep
  \/ Signal
  \/ StopStep

ServerSpec == ServerInit /\ [][ServerNext]_programVars

(* A query comes back from the chain within its timeouts.  Nothing is      *)
(* assumed of the log: the database may hang.                              *)
ServerFairSpec ==
  /\ ServerSpec
  /\ WF_programVars(StopStep)
  /\ \A q \in Queries :
       /\ WF_programVars(\E stage \in {"logging", "returning"} : Resolved(q, stage))
       /\ WF_programVars(Log(q)) /\ WF_programVars(Reply(q))

-----------------------------------------------------------------------------
(* Types of the variables. *)
ServerTypeOK ==
  /\ listener \in [Listeners -> {"starting", "serving", "failed", "closed"}]
  /\ query \in [Queries -> {"unsent", "resolving", "logging", "returning", "replied"}]
  /\ signals \in BOOLEAN /\ errChan \in BOOLEAN /\ stopped \in BOOLEAN
  /\ main \in {"running", "stopping", "done", "exited"}
  /\ stopAt \in DOMAIN DnsServers

(* If Stop has stopped all DNS servers, each query that one of them had    *)
(* taken has got its reply before the program ends.  Without a signal, or  *)
(* if a server had not started, queries are cut off; queries over HTTP     *)
(* always are.                                                             *)
StopsGracefully ==
  stopped => \A l \in Range(DnsServers) : InFlight(l) = {}

(* A query gets its reply unless the program ends, even if the database of *)
(* the log hangs and the channel is full.                                  *)
QueriesGetReplies ==
  \A q \in Queries :
    query[q] = "resolving" ~> query[q] = "replied" \/ main = "exited"

(* After a signal the program ends, whatever the listeners, the queries    *)
(* and the log do.                                                         *)
SignalEnds == signals ~> main = "exited"
=============================================================================
