--------------------------- MODULE SessionStream ---------------------------
(***************************************************************************)
(* One UI session, from the engine's event bus to the browser.             *)
(*   - the worker thread (sessions._run around engine.run) and the HTTP    *)
(*     threads that add constraints all publish on one EventBus, which has *)
(*     no lock: a publication takes its number and its parent, then        *)
(*     appends to the log, then becomes the parent of the next;            *)
(*   - an SSE handler thread (server._events) polls the log and the        *)
(*     session's status, and writes frames;                                *)
(*   - the browser (ui/app.js) checks every frame, loses connections and   *)
(*     resumes them from the last event it has.                            *)
(***************************************************************************)
EXTENDS Integers, Sequences, FiniteSets

CONSTANTS
  Worker, HttpThreads,  \* the threads that publish
  \* bounds
  MaxEvents,          \* events of the engine's loop
  MaxConstraints, MaxBreaks,
  NoValue

VARIABLES
  status,    \* RunSession.status
  receipt,   \* RunSession.receipt is there
  error,     \* RunSession.error is there
  unapplied,   \* constraints queued on the engine and not yet applied
  worker,    \* where the worker thread is
  seqno,     \* EventBus._seq
  chain,     \* EventBus._run_id: the chain new events belong to
  last,      \* EventBus._last_by_run (0: no event yet)
  log,       \* EventBus.log
  pub,       \* per thread, the publication it is in the middle of
  handler,   \* the SSE handler: [pc, cursor, batch]
  wire,      \* frames written and not yet received
  client,    \* the browser: [cursor, parents, got, lastId, done]
  usage,     \* how often things have happened
  crossed    \* history: the length of the log when a publication first began in
             \* the middle of another one, -1 as long as none has

session == <<status, receipt, error, unapplied, worker>>
bus     == <<seqno, chain, last, log, pub>>
stream    == <<session, bus, handler, wire, client, usage, crossed>>

Threads == {Worker} \cup HttpThreads
Chains  == {"global", "run"}
Publication == [seq : Nat, parent : Nat, chain : Chains, logged : BOOLEAN]
Terminal == {"finished", "failed"}

ASSUME SessionAssumption ==
  /\ Worker \notin HttpThreads
  /\ NoValue \notin Terminal
  /\ NoValue \notin Publication
  /\ {MaxEvents, MaxConstraints, MaxBreaks} \subseteq Nat

-----------------------------------------------------------------------------
(* EventBus.publish, in the steps other threads can come between: the        *)
(* interpreter changes threads at calls, and there is none between the       *)
(* counting and the reading of the parent.                                   *)

Still(t) == pub[t] = NoValue

Number(t) ==
  /\ Still(t)
  /\ crossed' = IF crossed < 0 /\ (\E u \in Threads \ {t} : ~Still(u)) THEN Len(log) ELSE crossed
  /\ seqno' = seqno + 1
  /\ pub' = [pub EXCEPT ![t] = [seq |-> seqno + 1, parent |-> last[chain], chain |-> chain,
                                logged |-> FALSE]]
  /\ UNCHANGED <<chain, last, log>>

\* Mutant: every event claims the first parent of its chain again.
LogWithoutParent(t) ==
  log' = Append(log, [seq |-> pub[t].seq, parent |-> 0, chain |-> pub[t].chain])
LogEvent(t) ==
  log' = Append(log, [seq |-> pub[t].seq, parent |-> pub[t].parent, chain |-> pub[t].chain])

AppendEvent(t) ==
  /\ ~Still(t) /\ ~pub[t].logged
  /\ LogEvent(t)
  /\ pub' = [pub EXCEPT ![t].logged = TRUE]
  /\ UNCHANGED <<session, seqno, chain, last, handler, wire, client, usage, crossed>>

LinkEvent(t) ==
  /\ ~Still(t) /\ pub[t].logged
  /\ last' = [last EXCEPT ![pub[t].chain] = pub[t].seq]
  /\ pub' = [pub EXCEPT ![t] = NoValue]
  /\ UNCHANGED <<session, seqno, chain, log, handler, wire, client, usage, crossed>>

-----------------------------------------------------------------------------
(* SessionManager and the worker thread.                                     *)

SessionInit ==
  /\ status = "queued" /\ receipt = FALSE /\ error = FALSE
  /\ unapplied = 0 /\ worker = "none"
  /\ seqno = 0 /\ chain = "global" /\ last = [c \in Chains |-> 0]
  /\ log = <<>> /\ pub = [t \in Threads |-> NoValue]
  /\ handler = [pc |-> "read", cursor |-> 0, batch |-> <<>>]
  /\ wire = <<>>
  /\ client = [cursor |-> 0, parents |-> [c \in Chains |-> 0], got |-> <<>>, lastId |-> 0,
               done |-> NoValue]
  /\ usage = [events |-> 0, constraints |-> 0, breaks |-> 0]
  /\ crossed = -1

(* start() and add_constraint() exclude each other by the manager's lock;    *)
(* nothing excludes the worker, and constraints come until the status is     *)
(* terminal.                                                                 *)
Unlocked == \A o \in HttpThreads : Still(o)

Start ==
  /\ Unlocked /\ status = "queued"
  /\ status' = "running"
  /\ worker' = "begin"
  /\ UNCHANGED <<receipt, error, unapplied, bus, handler, wire, client, usage, crossed>>

AddConstraint(o) ==
  /\ Unlocked
  /\ status \in {"queued", "running"}
  /\ usage.constraints < MaxConstraints
  /\ usage' = [usage EXCEPT !.constraints = @ + 1]
  /\ unapplied' = unapplied + 1
  /\ Number(o)
  /\ UNCHANGED <<status, receipt, error, worker, handler, wire, client>>

(* engine.run: bus.begin_run.                                                *)
Begin ==
  /\ worker = "begin"
  /\ chain' = "run"
  /\ worker' = "loop"
  /\ UNCHANGED <<status, receipt, error, unapplied, seqno, last, log, pub, handler, wire, client,
                 usage, crossed>>

(* One turn of the control loop publishes: the queued constraints are        *)
(* applied, or a step is taken.                                              *)
Turn ==
  /\ worker = "loop"
  /\ Number(Worker)
  /\ \/ unapplied > 0 /\ UNCHANGED usage
     \/ /\ usage.events < MaxEvents
        /\ usage' = [usage EXCEPT !.events = @ + 1]
  /\ unapplied' = 0
  /\ UNCHANGED <<status, receipt, error, worker, handler, wire, client>>

(* The loop ends; run.finished is published.                                 *)
LastEvent ==
  /\ worker = "loop"
  /\ Number(Worker)
  /\ worker' = "finish"
  /\ UNCHANGED <<status, receipt, error, unapplied, handler, wire, client, usage>>

(* _run: the receipt first, then the status.                                 *)
RunReturns ==
  /\ worker = "finish" /\ Still(Worker)
  /\ receipt' = TRUE
  /\ worker' = "returned"
  /\ UNCHANGED <<status, error, unapplied, bus, handler, wire, client, usage, crossed>>

CloseSession ==
  /\ worker = "returned"
  /\ status' = "finished"
  /\ worker' = "closed"
  /\ UNCHANGED <<receipt, error, unapplied, bus, handler, wire, client, usage, crossed>>

(* engine.run raises: the status first, then the error.                      *)
Fail ==
  /\ worker \in {"loop", "finish"} /\ Still(Worker)
  /\ status' = "failed"
  /\ worker' = "failing"
  /\ UNCHANGED <<receipt, error, unapplied, bus, handler, wire, client, usage, crossed>>

StoreError ==
  /\ worker = "failing"
  /\ error' = TRUE
  /\ worker' = "closed"
  /\ UNCHANGED <<status, receipt, unapplied, bus, handler, wire, client, usage, crossed>>

-----------------------------------------------------------------------------
(* server._events: read what is new, write it frame by frame, then look at   *)
(* the status.                                                               *)

(* sessions.events_after: what the log has beyond the cursor, in its order.  *)
Nth(S, k) == CHOOSE i \in S : Cardinality({j \in S : j < i}) = k - 1
Newer(cursor) ==
  LET new == {i \in DOMAIN log : log[i].seq > cursor}
  IN [k \in 1..Cardinality(new) |-> log[Nth(new, k)]]

Read ==
  /\ handler.pc = "read"
  /\ handler' = [handler EXCEPT !.pc = "send", !.batch = Newer(handler.cursor)]
  /\ UNCHANGED <<session, bus, wire, client, usage, crossed>>

Send ==
  /\ handler.pc = "send" /\ handler.batch # <<>>
  /\ wire' = Append(wire, [event |-> Head(handler.batch), terminal |-> NoValue])
  /\ handler' = [handler EXCEPT !.cursor = Head(handler.batch).seq, !.batch = Tail(@)]
  /\ UNCHANGED <<session, bus, client, usage, crossed>>

(* A terminal status ends the stream, whatever has been logged since the     *)
(* last read.                                                                *)
\* Mutant: the handler never notices that the session ended.
PollForever ==
  /\ handler.pc = "send" /\ handler.batch = <<>>
  /\ handler' = [handler EXCEPT !.pc = "read"]
  /\ UNCHANGED wire
LookAtStatus ==
  /\ handler.pc = "send" /\ handler.batch = <<>>
  /\ IF status \in Terminal
     THEN /\ wire' = Append(wire, [event |-> NoValue, terminal |-> status])
          /\ handler' = [handler EXCEPT !.pc = "closed"]
     ELSE /\ handler' = [handler EXCEPT !.pc = "read"]
          /\ UNCHANGED wire

Poll == LookAtStatus /\ UNCHANGED <<session, bus, client, usage, crossed>>

-----------------------------------------------------------------------------
(* The browser.  A frame out of order, or with another parent than the last  *)
(* accepted event of its chain, is rejected: app.js validEvent.              *)

Valid(e) == e.seq > client.cursor /\ e.parent = client.parents[e.chain]

HandleEvent(e) ==
  IF Valid(e)
  THEN client' = [client EXCEPT !.lastId = e.seq, !.cursor = e.seq, !.parents[e.chain] = e.seq,
                                !.got = Append(@, e.seq)]
  ELSE client' = [client EXCEPT !.lastId = e.seq]

Receive ==
  /\ wire # <<>>
  /\ wire' = Tail(wire)
  /\ IF Head(wire).terminal = NoValue
     THEN HandleEvent(Head(wire).event)
     ELSE client' = [client EXCEPT !.done = Head(wire).terminal]
  /\ UNCHANGED <<session, bus, handler, usage, crossed>>

(* The connection breaks: what was on the wire is gone, the handler ends.    *)
Break ==
  /\ handler.pc # "lost" /\ client.done = NoValue
  /\ usage.breaks < MaxBreaks
  /\ usage' = [usage EXCEPT !.breaks = @ + 1]
  /\ wire' = <<>>
  /\ handler' = [handler EXCEPT !.pc = "lost", !.batch = <<>>]
  /\ UNCHANGED <<session, bus, client, crossed>>

(* EventSource resumes after the last id it received; the reconnect button   *)
(* after the last event the guard accepted.                                  *)
\* Mutant: the handler resumes one event too far.
ResumeAfterNext(cursor) == cursor + 1
ResumeFrom(cursor) == cursor

Reconnect ==
  /\ handler.pc = "lost" /\ client.done = NoValue
  /\ \E cursor \in {client.lastId, client.cursor} :
       handler' = [pc |-> "read", cursor |-> ResumeFrom(cursor), batch |-> <<>>]
  /\ UNCHANGED <<session, bus, wire, client, usage, crossed>>

-----------------------------------------------------------------------------
(* Started threads keep running and the browser keeps reading and resuming   *)
(* (these four are weakly fair); nobody has to start the session, constrain  *)
(* it or break a connection.                                                 *)
Publishing == \E t \in Threads : AppendEvent(t) \/ LinkEvent(t)
Run        == Begin \/ Turn \/ LastEvent \/ RunReturns \/ CloseSession \/ Fail \/ StoreError
Serve      == Read \/ Send \/ Poll
Browse     == Receive \/ Reconnect

SessionNext ==
  \/ Start \/ (\E o \in HttpThreads : AddConstraint(o))
  \/ Publishing \/ Run \/ Serve \/ Browse \/ Break

SessionSpec == SessionInit /\ [][SessionNext]_stream

-----------------------------------------------------------------------------
(* Properties.                                                               *)

(* The i-th event has a higher number than the one before it, and names its  *)
(* predecessor in its chain.                                                 *)
Linked(i) ==
  /\ i > 1 => log[i].seq > log[i - 1].seq
  /\ LET before == {j \in 1..(i - 1) : log[j].chain = log[i].chain}
     IN  IF before = {} THEN log[i].parent = 0
         ELSE \E j \in before : log[i].parent = log[j].seq /\ \A k \in before : k <= j

(* events.validate_event_chain finds nothing, at any moment of any run: the  *)
(* stream is causal (docs/ui.md, events.py).                                 *)
StreamValid == \A i \in DOMAIN log : Linked(i)

(* What was published before two publications overlapped for the first time  *)
(* is a valid chain; and however far the log is one, whatever was numbered,  *)
(* logged and linked in what order behind it, whichever connections break    *)
(* and however they are resumed, the browser holds its beginning, in order,  *)
(* without a gap and nothing twice (events.py, server._events, app.js).      *)
BrowserFollows ==
  /\ \A i \in DOMAIN log : (crossed < 0 \/ i <= crossed) => Linked(i)
  /\ \A n \in 0..Len(log) : (\A i \in 1..n : Linked(i)) =>
       /\ \A i \in DOMAIN client.got : i <= n => client.got[i] = log[i].seq
       /\ n = Len(log) => Len(client.got) <= n

(* A started session's browser is eventually told that it ended.             *)
StreamCloses == status = "running" ~> client.done # NoValue
=============================================================================
